---------------------------- MODULE Spec2Model ----------------------------
(***************************************************************************)
(* A model of the search tree core of src/mcts/node.cc: the node           *)
(* statistics and the visit-update protocol (TryStartScoreUpdate,          *)
(* CancelScoreUpdate, FinalizeScoreUpdate), terminal management, the       *)
(* beta-weighted re-backup, and solidification of the child container.     *)
(*                                                                         *)
(* Nodes live in a heap: a function from addresses to node records.  A     *)
(* pointer is an address, NULL is 0.  Floats are kept as exact rationals   *)
(* <<numerator, denominator>>; visited_policy_, a float sum of decoded     *)
(* priors, is kept as a fixed-point number rounded as a float is (see      *)
(* FixOfFloat, FloatRound).                                                *)
(***************************************************************************)
EXTENDS Integers, Sequences, FiniteSets, TLC

VARIABLES
  heap,      \* address -> node record, for every node that has been allocated
  gcq,       \* gNodeGc: subtrees_to_gc_ and subtrees_to_gc_solid_size_, in step
  steps,     \* number of operations performed so far
  wpc,       \* worker -> position inside its current call
  wreg,      \* worker -> the values it has read (its locals)
  started,   \* number of TryStartScoreUpdate calls that returned true
  closes,    \* number of CancelScoreUpdate / FinalizeScoreUpdate calls
  closedK,   \* sum of the multivisit counts of those calls
  kmax,      \* largest multivisit count the workers use
  tree,      \* NodeTree: gamebegin_node_, current_head_, history_
  gc         \* gNodeGc as its threads see it: the two vectors, the mutex

vars == <<heap, gcq, steps, wpc, wreg, started, closes, closedK, kmax, tree, gc>>

---------------------------------------------------------------------------
(* Bounds of the model. *)

MaxSteps == 5
MaxK == 2
MaxCalls == 4
NumWorkers == 2
NumSolidEdges == 3
MaxSolidSteps == 6
MaxPriorSteps == 3
NumEdgeMoves == 2
MaxEdgeSteps == 5
NumTreeMoves == 2
MaxPly == 2
MaxTreeSteps == 4
NumGcCallers == 2
NumGcRoots == 3

(* Program constants. *)

NULL == 0
BLACK_WON == 1
DRAW == 2
WHITE_WON == 3

GameResults == {BLACK_WON, DRAW, WHITE_WON}
Terminals == {"NonTerminal", "EndOfGame", "Tablebase", "TwoFold"}

\* GameResult's unary minus: the result seen from the other side.
NegResult(r) == 4 - r

\* F(v), with v evaluated once however often F uses it.
Once(v, F(_)) == CHOOSE r \in {F(x) : x \in {v}} : TRUE

---------------------------------------------------------------------------
(* Exact rationals <<n, d>>, d > 0, in lowest terms. *)

RECURSIVE GCD(_, _)
GCD(a, b) == IF b = 0 THEN a ELSE GCD(b, a % b)

Abs(x) == IF x < 0 THEN -x ELSE x

RNorm(n, d) ==
  LET s == IF d < 0 THEN -1 ELSE 1
      g == GCD(Abs(n), Abs(d))
  IN  <<(s * n) \div g, (s * d) \div g>>

R(n) == <<n, 1>>
RAdd(a, b) == RNorm(a[1] * b[2] + b[1] * a[2], a[2] * b[2])
RSub(a, b) == RNorm(a[1] * b[2] - b[1] * a[2], a[2] * b[2])
RMul(a, b) == RNorm(a[1] * b[1], a[2] * b[2])
RDiv(a, b) == RNorm(a[1] * b[2], a[2] * b[1])
RNeg(a) == <<-a[1], a[2]>>
RLess(a, b) == a[1] * b[2] < b[1] * a[2]
RMax(a, b) == IF RLess(a, b) THEN b ELSE a
RMin(a, b) == IF RLess(b, a) THEN b ELSE a

---------------------------------------------------------------------------
(* The compressed prior codec.  A float is its IEEE-754 bit pattern.       *)

Float_0 == 0
Float_1 == 1065353216      \* 0x3F800000, 1.0f
Float_Half == Float_1 - 8388608        \* 0x3F000000, 0.5f: the exponent one lower
Float_Quarter == Float_1 - 2 * 8388608 \* 0x3E800000, 0.25f

Pow2(n) == IF n = 0 THEN 1 ELSE 2 ^ n

\* constexpr int32_t roundings = (1 << 11) - (3 << 28);
roundings == 2048 - 805306368

\* SetP without the test for a negative sum.
SetPNoSignTest(bits) == ((bits + roundings) \div 4096) % 65536

\* GetP that decodes the code 0 to 0.0.
GetPZeroIsZero(p_) == IF p_ = 0 THEN 0 ELSE p_ * 4096 + 805306368

\* Edge::SetP: the 16-bit code stored for the float with bit pattern `bits`.
SetP(bits) ==
  LET tmp == bits + roundings
  IN  IF tmp < 0 THEN 0 ELSE (tmp \div 4096) % 65536

\* Edge::GetP: the bit pattern of the float decoded from the code p_.
GetP(p_) == p_ * 4096 + 805306368

(* A non-negative float as an exact fixed-point number <<hi, lo>>, worth   *)
(* hi * 2^-12 + lo * 2^-42 with 0 <= lo < 2^30.  Defined for the floats    *)
(* GetP produces: exponent field 96..127, low 12 significand bits zero.    *)
FixOfFloat(bits) ==
  LET e == (bits \div 8388608) - 96
      m == (bits % 8388608) \div 4096
  IN  IF e <= 18
        THEN <<0, (2048 + m) * Pow2(e)>>
        ELSE LET x == (2048 + m) * Pow2(e - 19)
             IN  <<x \div 2048, (x % 2048) * 524288>>

FixZero == <<0, 0>>
FixNorm(hi, lo) == <<hi + (lo \div 1073741824), lo % 1073741824>>
FixNeg(a) == FixNorm(-a[1], -a[2])
FixIsNeg(a) == a[1] < 0

\* The position of the highest set bit of x > 0.
RECURSIVE TopBit(_)
TopBit(x) == IF x <= 1 THEN 0 ELSE 1 + TopBit(x \div 2)

(* Rounding of a non-negative fixed-point number to a float: 24            *)
(* significant bits, to nearest, ties to even.  The bits dropped all lie   *)
(* in lo as long as the number is below 2^12.                              *)
FloatRoundPos(a) ==
  LET top == IF a[1] > 0 THEN 30 + TopBit(a[1]) ELSE TopBit(a[2])
      drop == top - 23
  IN  IF (a[1] = 0 /\ a[2] = 0) \/ drop <= 0 THEN a
      ELSE LET unit == Pow2(drop)
               rem == a[2] % unit
               kept == a[2] - rem
               odd == IF drop < 30 THEN (a[2] \div unit) % 2 = 1
                      ELSE a[1] % 2 = 1
               up == 2 * rem > unit \/ (2 * rem = unit /\ odd)
           IN  FixNorm(a[1], IF up THEN kept + unit ELSE kept)

FloatRound(a) == IF FixIsNeg(a) THEN FixNeg(FloatRoundPos(FixNeg(a)))
                 ELSE FloatRoundPos(a)

\* Float addition and subtraction: the exact result, rounded.
FixAdd(a, b) == FloatRound(FixNorm(a[1] + b[1], a[2] + b[2]))
FixSub(a, b) == FloatRound(FixNorm(a[1] - b[1], a[2] - b[2]))

\* The decoded prior of an edge, as a number.
PVal(edge) == FixOfFloat(GetP(edge.p_))


---------------------------------------------------------------------------
(* Nodes and edges. *)

\* uint32_t counters hold their value mod 2^32; the model keeps the
\* representative in (-2^31, 2^31), so a counter that wrapped below zero
\* shows as a negative number and "x > 0" on the unsigned value is x # 0.
U32Positive(x) == x # 0

\* Edge::FromMovelist: one edge per move, the prior not yet set.
FromMovelist(moves) == [i \in 1..Len(moves) |-> [move_ |-> moves[i], p_ |-> 0]]

\* Node::Node(Node* parent, uint16_t index): a node without statistics.
FreshNode(parent, index) ==
  [ parent_ |-> parent, index_ |-> index,
    child_ |-> NULL, sibling_ |-> NULL, solid_children_ |-> FALSE,
    has_edges_ |-> FALSE, edges_ |-> <<>>, num_edges_ |-> 0,
    n_ |-> 0, n_in_flight_ |-> 0,
    wl_ |-> R(0), d_ |-> R(1), m_ |-> R(0),
    visited_policy_ |-> FixZero,
    q_betamcts_ |-> R(0), n_betamcts_ |-> R(0), r_betamcts_ |-> R(1),
    terminal_type_ |-> "NonTerminal",
    lower_bound_ |-> BLACK_WON, upper_bound_ |-> WHITE_WON,
    best_child_cached_ |-> NULL, best_child_cache_in_flight_limit_ |-> 0 ]

IsTerminal(node) == node.terminal_type_ # "NonTerminal"
IsTbTerminal(node) == node.terminal_type_ = "Tablebase"

\* The lowest address not in use.
NewAddr(h) == CHOOSE a \in 1..(Cardinality(DOMAIN h) + 1) :
                 /\ a \notin DOMAIN h
                 /\ \A b \in 1..(a - 1) : b \in DOMAIN h

\* std::allocator<Node>::allocate(n): the lowest base of n free addresses in a row.
RECURSIVE AllocFrom(_, _, _)
AllocFrom(h, n, base) ==
  IF \A i \in 0..(n - 1) : (base + i) \notin DOMAIN h
    THEN base
    ELSE AllocFrom(h, n, base + 1)

Allocate(h, n) == AllocFrom(h, n, 1)

(* The iterator over (edge, child) pairs, Node::Edges().  In linked-list   *)
(* layout the cursor into the sibling list moves on only when the child's  *)
(* index_ is the current edge index; in solid layout slot i is child_ + i. *)
(* EdgeNodes(h, a)[i + 1] is the child node for edge i, or NULL.           *)
RECURSIVE IterList(_, _, _, _)
IterList(h, ptr, idx, num) ==
  IF idx >= num THEN <<>>
  ELSE IF ptr # NULL /\ h[ptr].index_ = idx
    THEN <<ptr>> \o IterList(h, h[ptr].sibling_, idx + 1, num)
    ELSE <<NULL>> \o IterList(h, ptr, idx + 1, num)

EdgeNodes(h, a) ==
  IF h[a].solid_children_
    THEN [i \in 1..h[a].num_edges_ |-> h[a].child_ + (i - 1)]
    ELSE IterList(h, h[a].child_, 0, h[a].num_edges_)

\* EdgeAndNode's fused accessors: the node's value, or a default without node.
EdgeN(h, c) == IF c = NULL THEN 0 ELSE h[c].n_
EdgeNBetamcts(h, c) == IF c = NULL THEN R(0) ELSE h[c].n_betamcts_
EdgeRBetamcts(h, c) == IF c = NULL THEN R(1) ELSE h[c].r_betamcts_
EdgeWL(h, c, default) == IF c = NULL THEN default ELSE h[c].wl_
EdgeD(h, c, default) == IF c = NULL THEN default ELSE h[c].d_
EdgeM(h, c, default) == IF c = NULL THEN default ELSE h[c].m_
EdgeLower(h, c) == IF c = NULL THEN BLACK_WON ELSE h[c].lower_bound_
EdgeUpper(h, c) == IF c = NULL THEN WHITE_WON ELSE h[c].upper_bound_
EdgeIsTbTerminal(h, c) == IF c = NULL THEN FALSE ELSE IsTbTerminal(h[c])

\* The linked-list children of a node, in list order.
RECURSIVE SiblingList(_, _)
SiblingList(h, ptr) ==
  IF ptr = NULL THEN <<>> ELSE <<ptr>> \o SiblingList(h, h[ptr].sibling_)


---------------------------------------------------------------------------
(* Node operations, as functions from the heap to the heap. *)

\* Node::SetBounds
SetBounds(h, a, lower, upper) ==
  [h EXCEPT ![a].lower_bound_ = lower, ![a].upper_bound_ = upper]

\* TryStartScoreUpdate without the first-visit check.
TryStartAlways(h, a) ==
  [h |-> [h EXCEPT ![a].n_in_flight_ = @ + 1], ret |-> TRUE]

\* Node::TryStartScoreUpdate
TryStartScoreUpdate(h, a) ==
  IF h[a].n_ = 0 /\ U32Positive(h[a].n_in_flight_)
    THEN [h |-> h, ret |-> FALSE]
    ELSE [h |-> [h EXCEPT ![a].n_in_flight_ = @ + 1], ret |-> TRUE]

\* CancelScoreUpdate that forgets to release the visit.
CancelKeepsInFlight(h, a, multivisit) ==
  [h EXCEPT ![a].best_child_cached_ = NULL]

\* CancelScoreUpdate that releases one visit more than it was given.
CancelReleasesOneMore(h, a, multivisit) ==
  [h EXCEPT ![a].n_in_flight_ = @ - (multivisit + 1),
            ![a].best_child_cached_ = NULL]

\* Node::CancelScoreUpdate
CancelScoreUpdate(h, a, multivisit) ==
  [h EXCEPT ![a].n_in_flight_ = @ - multivisit,
            ![a].best_child_cached_ = NULL]

\* MakeTerminal that sets the bounds of no terminal, whatever its type.
MakeTerminalNoBounds(h, a, result, plies_left, type, inflate_terminals) ==
  LET wd == IF result = DRAW THEN <<R(0), R(1)>>
            ELSE IF result = WHITE_WON THEN <<R(1), R(0)>>
            ELSE <<R(-1), R(0)>>
  IN  [h EXCEPT ![a].terminal_type_ = type, ![a].m_ = plies_left,
                ![a].wl_ = wd[1], ![a].q_betamcts_ = wd[1], ![a].d_ = wd[2]]

\* Node::MakeTerminal
MakeTerminal(h, a, result, plies_left, type, inflate_terminals) ==
  LET h1 == IF type # "TwoFold" THEN SetBounds(h, a, result, result) ELSE h
      h2 == [h1 EXCEPT ![a].terminal_type_ = type, ![a].m_ = plies_left]
      h3 == IF result = DRAW
              THEN [h2 EXCEPT ![a].wl_ = R(0), ![a].q_betamcts_ = R(0),
                              ![a].d_ = R(1)]
            ELSE IF result = WHITE_WON
              THEN [h2 EXCEPT ![a].wl_ = R(1), ![a].q_betamcts_ = R(1),
                              ![a].d_ = R(0)]
            ELSE IF result = BLACK_WON
              THEN LET h2b == [h2 EXCEPT ![a].wl_ = R(-1),
                                         ![a].q_betamcts_ = R(-1),
                                         ![a].d_ = R(0)]
                       par == h2b[a].parent_
                   IN  \* GetOwnEdge()->SetP(0.0f)
                       IF par # NULL
                         THEN [h2b EXCEPT ![par].edges_[h2b[a].index_ + 1].p_ =
                                             SetP(Float_0)]
                         ELSE h2b
            ELSE h2
  IN  IF inflate_terminals
        THEN [h3 EXCEPT ![a].n_betamcts_ = R(10),
                        ![a].r_betamcts_ = <<1, 10>>]
        ELSE h3

\* The default of MakeTerminal's inflate_terminals parameter.
DefaultInflateTerminals == TRUE

(* Node::RecalculateScoreBetamcts, the loop over Edges(): the accumulators *)
(* after the edges idx.., given the accumulators acc before them.          *)
RECURSIVE RecalcLoop(_, _, _, _)
RecalcLoop(h, nodes, idx, acc) ==
  IF idx > Len(nodes) THEN acc
  ELSE
    LET c == nodes[idx]
        edge_lower == EdgeLower(h, c)
        edge_upper == EdgeUpper(h, c)
        is_tb == EdgeIsTbTerminal(h, c)
        n == EdgeNBetamcts(h, c)
        r == EdgeRBetamcts(h, c)
        visits_eff == RMul(r, n)
        counted == RLess(R(0), n)
        acc1 ==
          [ lower |-> IF edge_lower > acc.lower THEN edge_lower ELSE acc.lower,
            upper |-> IF edge_upper > acc.upper THEN edge_upper ELSE acc.upper,
            winning_m |-> IF edge_lower = WHITE_WON /\ ~is_tb
                            THEN RMin(acc.winning_m, EdgeM(h, c, R(0)))
                            ELSE acc.winning_m,
            losing_m |-> IF ~(edge_lower = WHITE_WON /\ ~is_tb)
                            /\ edge_upper = BLACK_WON
                           THEN RMax(acc.losing_m, EdgeM(h, c, R(0)))
                           ELSE acc.losing_m,
            prefer_tb |-> acc.prefer_tb \/ is_tb,
            n_vanilla |-> acc.n_vanilla + EdgeN(h, c),
            n_temp |-> IF counted THEN RAdd(acc.n_temp, visits_eff)
                       ELSE acc.n_temp,
            q_temp |-> IF counted
                         THEN RAdd(acc.q_temp,
                                   RMul(RNeg(h[c].q_betamcts_), visits_eff))
                         ELSE acc.q_temp,
            d_temp |-> IF counted
                         THEN RAdd(acc.d_temp,
                                   RMul(EdgeD(h, c, R(0)), visits_eff))
                         ELSE acc.d_temp,
            m_temp |-> IF counted
                         THEN RAdd(acc.m_temp,
                                   RMul(EdgeM(h, c, R(0)), visits_eff))
                         ELSE acc.m_temp ]
    IN  Once(acc1, LAMBDA x : RecalcLoop(h, nodes, idx + 1, x))

RecalcInit ==
  [ lower |-> BLACK_WON, upper |-> BLACK_WON,
    winning_m |-> R(1000000), losing_m |-> R(0), prefer_tb |-> FALSE,
    n_vanilla |-> 1,
    n_temp |-> R(0), q_temp |-> R(0), d_temp |-> R(0), m_temp |-> R(0) ]

(* The sum of the decoded priors of the children with n > 0, accumulated *)
(* in edge order from acc (lines 444-447).                               *)
RECURSIVE VisitedPolicySum(_, _, _, _, _)
VisitedPolicySum(h, a, nodes, idx, acc) ==
  IF idx > Len(nodes) THEN acc
  ELSE VisitedPolicySum(h, a, nodes, idx + 1,
         IF EdgeN(h, nodes[idx]) > 0
           THEN FixAdd(acc, PVal(h[a].edges_[idx]))
           ELSE acc)

(* Node::RecalculateScoreBetamcts after the loop, lines 412-439: the     *)
(* promotion to a terminal, or else the new beta statistics.             *)
RecalcPromote(h, a, acc) ==
  LET m_temp == IF RLess(R(0), acc.n_temp)
                  THEN RDiv(acc.m_temp, acc.n_temp) ELSE R(0)
      prefer_tb == IF RLess(acc.winning_m, R(1000)) THEN FALSE
                   ELSE acc.prefer_tb
      type == IF prefer_tb THEN "Tablebase" ELSE "EndOfGame"
  IN  IF acc.lower = acc.upper /\ acc.n_vanilla > 1
        THEN IF acc.upper = BLACK_WON
               THEN MakeTerminal(h, a, NegResult(acc.upper),
                                 RAdd(acc.losing_m, R(1)), type,
                                 DefaultInflateTerminals)
             ELSE IF acc.upper = WHITE_WON
               THEN MakeTerminal(h, a, NegResult(acc.upper),
                                 RAdd(acc.winning_m, R(1)), type,
                                 DefaultInflateTerminals)
             ELSE h
      ELSE IF RLess(R(0), acc.n_temp)
        THEN [h EXCEPT ![a].q_betamcts_ = RDiv(acc.q_temp, acc.n_temp),
                       ![a].n_betamcts_ = acc.n_temp,
                       ![a].d_ = RDiv(acc.d_temp, acc.n_temp),
                       ![a].m_ = RAdd(m_temp, R(1))]
      ELSE h

(* Node::RecalculateScoreBetamcts, lines 440-449: n_ and visited_policy_ *)
(* are set anew when n_ is not 1 + the children's n.                     *)
RecalcCorrectN(h, a, n_vanilla) ==
  IF n_vanilla # h[a].n_ /\ h[a].n_ > 0
    THEN [h EXCEPT ![a].n_ = n_vanilla,
                   ![a].visited_policy_ =
                       VisitedPolicySum(h, a, EdgeNodes(h, a), 1, FixZero)]
    ELSE h

\* Node::RecalculateScoreBetamcts
RecalculateScoreBetamcts(h, a) ==
  Once(RecalcLoop(h, EdgeNodes(h, a), 1, RecalcInit),
       LAMBDA acc :
         Once(RecalcPromote(h, a, acc),
              LAMBDA h1 : RecalcCorrectN(h1, a, acc.n_vanilla)))

\* FinalizeScoreUpdate that counts one visit whatever the multivisit.
FinalizeStatsOneVisit(h, a, v, d, m, multivisit, multivisit_eff, inflate_terminals) ==
  [h EXCEPT ![a].n_ = @ + 1]

\* FinalizeScoreUpdate that also adds the multivisit to n_betamcts_ of a
\* node that is not terminal.
FinalizeStatsAddsK(h, a, v, d, m, multivisit, multivisit_eff, inflate_terminals) ==
  LET node == h[a]
      k == R(multivisit)
      keff == R(multivisit_eff)
      nb0 == IF IsTerminal(node) /\ inflate_terminals
               THEN RAdd(node.n_betamcts_, R(multivisit * 10))
               ELSE RAdd(node.n_betamcts_, k)
      mean(x, target) ==
        RAdd(x, RDiv(RMul(k, RSub(target, x)), R(node.n_ + multivisit)))
      q1 == RAdd(node.q_betamcts_,
                 RDiv(RMul(keff, RSub(v, node.q_betamcts_)),
                      R(node.n_ + multivisit_eff)))
      nb1 == RAdd(nb0, keff)
      first == node.n_ = 0 /\ node.parent_ # NULL
      h1 == [h EXCEPT ![a].wl_ = mean(node.wl_, v),
                      ![a].d_ = mean(node.d_, d),
                      ![a].m_ = mean(node.m_, m),
                      ![a].q_betamcts_ = IF first THEN v ELSE q1,
                      ![a].n_betamcts_ = IF first THEN k ELSE nb1]
      h2 == IF first
              THEN [h1 EXCEPT ![node.parent_].visited_policy_ =
                     FixAdd(@, PVal(h1[node.parent_].edges_[node.index_ + 1]))]
              ELSE h1
  IN  [h2 EXCEPT ![a].n_ = @ + multivisit]

(* Node::FinalizeScoreUpdate up to "Increment N" (lines 580-615): the      *)
(* means, the beta statistics, the parent's visited policy, and n_.        *)
FinalizeStats(h, a, v, d, m, multivisit, multivisit_eff, inflate_terminals) ==
  LET node == h[a]
      k == R(multivisit)
      keff == R(multivisit_eff)
      nb0 == IF IsTerminal(node)
               THEN IF inflate_terminals
                      THEN RAdd(node.n_betamcts_, R(multivisit * 10))
                      ELSE RAdd(node.n_betamcts_, k)
               ELSE node.n_betamcts_
      mean(x, target) ==
        RAdd(x, RDiv(RMul(k, RSub(target, x)), R(node.n_ + multivisit)))
      q1 == RAdd(node.q_betamcts_,
                 RDiv(RMul(keff, RSub(v, node.q_betamcts_)),
                      R(node.n_ + multivisit_eff)))
      nb1 == RAdd(nb0, keff)
      first == node.n_ = 0 /\ node.parent_ # NULL
      h1 == [h EXCEPT ![a].wl_ = mean(node.wl_, v),
                      ![a].d_ = mean(node.d_, d),
                      ![a].m_ = mean(node.m_, m),
                      ![a].q_betamcts_ = IF first THEN v ELSE q1,
                      ![a].n_betamcts_ = IF first THEN k ELSE nb1]
      h2 == IF first
              THEN [h1 EXCEPT ![node.parent_].visited_policy_ =
                     FixAdd(@, PVal(h1[node.parent_].edges_[node.index_ + 1]))]
              ELSE h1
  IN  [h2 EXCEPT ![a].n_ = @ + multivisit]

(* Node::FinalizeScoreUpdate from "Decrement virtual loss" on (lines       *)
(* 617-623): n_in_flight_, the full recalculation, the best-child cache.   *)
FinalizeRelease(h, a, multivisit, full_betamcts_update) ==
  Once([h EXCEPT ![a].n_in_flight_ = @ - multivisit],
       LAMBDA h3 :
         [(IF full_betamcts_update /\ h3[a].has_edges_
             THEN RecalculateScoreBetamcts(h3, a)
             ELSE h3) EXCEPT ![a].best_child_cached_ = NULL])

\* Node::FinalizeScoreUpdate
FinalizeScoreUpdate(h, a, v, d, m, multivisit, multivisit_eff, inflate_terminals, full_betamcts_update) ==
  Once(FinalizeStats(h, a, v, d, m, multivisit, multivisit_eff,
                     inflate_terminals),
       LAMBDA h2 : FinalizeRelease(h2, a, multivisit, full_betamcts_update))

\* Node::RevertTerminalVisits
RevertTerminalVisits(h, a, v, d, m, multivisit) ==
  LET node == h[a]
      n_new == node.n_ - multivisit
      k == R(multivisit)
      back(x, target) ==
        RSub(x, RDiv(RMul(k, RSub(target, x)), R(n_new)))
      h1 ==
        IF n_new <= 0
          THEN LET hp == IF node.parent_ # NULL
                           THEN [h EXCEPT ![node.parent_].visited_policy_ =
                                  FixSub(@, PVal(h[node.parent_].edges_[node.index_ + 1]))]
                           ELSE h
               IN  [hp EXCEPT ![a].wl_ = R(0), ![a].d_ = R(1), ![a].m_ = R(0),
                              ![a].n_ = 0,
                              ![a].n_betamcts_ = R(0),
                              ![a].q_betamcts_ = R(0),
                              ![a].r_betamcts_ = R(1)]
          ELSE Once([h EXCEPT ![a].wl_ = back(node.wl_, v),
                              ![a].d_ = back(node.d_, d),
                              ![a].m_ = back(node.m_, m),
                              ![a].n_ = @ - multivisit],
                    LAMBDA h2 : RecalculateScoreBetamcts(h2, a))
  IN  [h1 EXCEPT ![a].best_child_cached_ = NULL]

\* Node::UpdateBestChild for an edge whose node is c (NULL without node).
UpdateBestChild(h, a, c, visits_allowed) ==
  [h EXCEPT ![a].best_child_cached_ =
              IF c # NULL /\ h[c].n_ = 0 THEN NULL ELSE c,
            ![a].best_child_cache_in_flight_limit_ =
              visits_allowed + h[a].n_in_flight_]

(* Node::MakeNotTerminal, the loop over Edges(): n_, wl_ and d_ after the  *)
(* edges idx.., given their values acc before them.                        *)
RECURSIVE NotTerminalLoop(_, _, _, _)
NotTerminalLoop(h, nodes, idx, acc) ==
  IF idx > Len(nodes) THEN acc
  ELSE LET c == nodes[idx]
           n == EdgeN(h, c)
       IN  NotTerminalLoop(h, nodes, idx + 1,
             IF n > 0
               THEN [ n_ |-> acc.n_ + n,
                      wl_ |-> RAdd(acc.wl_, RMul(RNeg(EdgeWL(h, c, R(0))), R(n))),
                      d_ |-> RAdd(acc.d_, RMul(EdgeD(h, c, R(0)), R(n))) ]
               ELSE acc)

\* MakeNotTerminal that keeps n_ of a node without edges.
MakeNotTerminalKeepsN(h, a) ==
  LET h1 == [h EXCEPT ![a].terminal_type_ = "NonTerminal"]
  IN  IF h1[a].has_edges_
        THEN LET acc == NotTerminalLoop(h1, EdgeNodes(h1, a), 1,
                          [n_ |-> 1, wl_ |-> h1[a].wl_, d_ |-> h1[a].d_])
             IN  [h1 EXCEPT ![a].n_ = acc.n_,
                            ![a].wl_ = RDiv(acc.wl_, R(acc.n_)),
                            ![a].d_ = RDiv(acc.d_, R(acc.n_))]
        ELSE h1

\* Node::MakeNotTerminal
MakeNotTerminal(h, a) ==
  LET h1 == [h EXCEPT ![a].terminal_type_ = "NonTerminal", ![a].n_ = 0]
  IN  IF h1[a].has_edges_
        THEN LET acc == NotTerminalLoop(h1, EdgeNodes(h1, a), 1,
                          [n_ |-> 1, wl_ |-> h1[a].wl_, d_ |-> h1[a].d_])
             IN  [h1 EXCEPT ![a].n_ = acc.n_,
                            ![a].wl_ = RDiv(acc.wl_, R(acc.n_)),
                            ![a].d_ = RDiv(acc.d_, R(acc.n_))]
        ELSE h1


---------------------------------------------------------------------------
(* The reclaimer's queue and the child container. *)

\* NodeGarbageCollector::AddToGcQueue
AddToGcQueue(q, node, solid_size) ==
  IF node = NULL THEN q
  ELSE Append(q, [node |-> node, solid_size |-> solid_size])

(* Node's move assignment from the node at src to the node at dst: every   *)
(* field is taken over; the owning pointers of the source (child_,         *)
(* sibling_, edges_) are left null.                                        *)
MoveAssign(h, dst, src) ==
  [h EXCEPT ![dst] = h[src],
            ![src].child_ = NULL, ![src].sibling_ = NULL,
            ![src].has_edges_ = FALSE, ![src].edges_ = <<>>]

\* UpdateChildrenParents that leaves the children's parent_ as it was.
KeepChildrenParents(h, a) == h

\* Node::UpdateChildrenParents
UpdateChildrenParents(h, a) ==
  LET kids == IF ~h[a].solid_children_
                THEN {SiblingList(h, h[a].child_)[i] :
                        i \in 1..Len(SiblingList(h, h[a].child_))}
                ELSE {h[a].child_ + i : i \in 0..(h[a].num_edges_ - 1)}
  IN  [x \in DOMAIN h |-> IF x \in kids THEN [h[x] EXCEPT !.parent_ = a]
                          ELSE h[x]]

\* Node::CreateEdges
CreateEdges(h, a, moves) ==
  IF ~h[a].has_edges_
    THEN [h EXCEPT ![a].has_edges_ = TRUE,
                   ![a].edges_ = FromMovelist(moves),
                   ![a].num_edges_ = Len(moves)]
    ELSE h

(* Iterator::GetOrSpawnNode for edge idx of node a: in solid layout the    *)
(* slot; in linked-list layout the child with that index, made at the      *)
(* cursor's place in the sibling list when there is none.                  *)
GetOrSpawnNode(h, a, idx) ==
  LET at == EdgeNodes(h, a)[idx + 1]
  IN  IF at # NULL THEN [h |-> h, node |-> at]
      ELSE
        LET new == NewAddr(h)
            list == SiblingList(h, h[a].child_)
            before == {i \in 1..Len(list) : h[list[i]].index_ < idx}
            prev == IF before = {} THEN NULL
                    ELSE list[CHOOSE i \in before : \A j \in before : j <= i]
            next == IF prev = NULL THEN h[a].child_ ELSE h[prev].sibling_
            h1 == h @@ (new :> [FreshNode(a, idx) EXCEPT !.sibling_ = next])
        IN  [h |-> IF prev = NULL
                     THEN [h1 EXCEPT ![a].child_ = new]
                     ELSE [h1 EXCEPT ![prev].sibling_ = new],
             node |-> new]

\* MakeSolid's check without the test for terminal children in flight.
RECURSIVE SolidCheckNoTerminal(_, _, _)
SolidCheckNoTerminal(h, old_child_to_check, total_in_flight) ==
  IF old_child_to_check = NULL
    THEN [ok |-> TRUE, total_in_flight |-> total_in_flight]
  ELSE IF h[old_child_to_check].n_ <= 1
          /\ h[old_child_to_check].n_in_flight_ # 0
    THEN [ok |-> FALSE, total_in_flight |-> total_in_flight]
  ELSE SolidCheckNoTerminal(h, h[old_child_to_check].sibling_,
         total_in_flight + h[old_child_to_check].n_in_flight_)

(* Node::MakeSolid, the loop over the linked-list children that decides    *)
(* whether solidifying is safe: FALSE at the first child that forbids it,  *)
(* and the children's total n_in_flight otherwise.                         *)
RECURSIVE SolidCheck(_, _, _)
SolidCheck(h, old_child_to_check, total_in_flight) ==
  IF old_child_to_check = NULL
    THEN [ok |-> TRUE, total_in_flight |-> total_in_flight]
  ELSE IF h[old_child_to_check].n_ <= 1
          /\ U32Positive(h[old_child_to_check].n_in_flight_)
    THEN [ok |-> FALSE, total_in_flight |-> total_in_flight]
  ELSE IF IsTerminal(h[old_child_to_check])
          /\ U32Positive(h[old_child_to_check].n_in_flight_)
    THEN [ok |-> FALSE, total_in_flight |-> total_in_flight]
  ELSE SolidCheck(h, h[old_child_to_check].sibling_,
                  total_in_flight + h[old_child_to_check].n_in_flight_)

(* Node::MakeSolid, the loop that moves each linked-list child into its    *)
(* slot of the new array at `base` and hands the emptied node to the       *)
(* reclaimer.                                                              *)
RECURSIVE SolidMove(_, _, _, _)
SolidMove(h, q, base, old_child) ==
  IF old_child = NULL THEN [h |-> h, q |-> q]
  ELSE
    LET slot == base + h[old_child].index_
        h1 == MoveAssign(h, slot, old_child)
        h2 == [h1 EXCEPT ![old_child].parent_ = NULL]
        q1 == AddToGcQueue(q, old_child, 0)
    IN  Once(h2, LAMBDA h2v :
          Once(UpdateChildrenParents(h2v, slot), LAMBDA h3 :
            Once([h3 EXCEPT ![slot].sibling_ = NULL], LAMBDA h4 :
              SolidMove(h4, q1, base, h3[slot].sibling_))))

\* Node::MakeSolid
MakeSolid(h, q, a) ==
  IF h[a].solid_children_ \/ h[a].num_edges_ = 0 \/ IsTerminal(h[a])
    THEN [h |-> h, q |-> q, ret |-> FALSE]
  ELSE
    LET check == SolidCheck(h, h[a].child_, 0)
    IN  IF ~check.ok \/ check.total_in_flight # h[a].n_in_flight_
          THEN [h |-> h, q |-> q, ret |-> FALSE]
        ELSE
          LET base == Allocate(h, h[a].num_edges_)
              h1 == h @@ [x \in base..(base + h[a].num_edges_ - 1) |->
                            FreshNode(a, x - base)]
              old_child == h[a].child_
          IN  Once(SolidMove([h1 EXCEPT ![a].child_ = NULL], q, base,
                             old_child),
                   LAMBDA moved :
                     [h |-> [moved.h EXCEPT ![a].child_ = base,
                                            ![a].best_child_cached_ = NULL,
                                            ![a].solid_children_ = TRUE],
                      q |-> moved.q, ret |-> TRUE])


---------------------------------------------------------------------------
(* Release of children, and NodeTree.  These operations work on the heap   *)
(* h, the reclaimer's queue q and, for NodeTree, the tree record t.        *)

(* The nodes destroyed with the unique_ptr<Node> ptr: the node, what its   *)
(* sibling_ owns, and what its child_ owns (a chain of siblings, or in     *)
(* solid layout the array of num_edges_ slots).                            *)
RECURSIVE OwnedBy(_, _)
RECURSIVE OwnedChildren(_, _)
OwnedBy(h, ptr) ==
  IF ptr = NULL THEN {}
  ELSE {ptr} \cup OwnedBy(h, h[ptr].sibling_) \cup OwnedChildren(h, ptr)

OwnedChildren(h, a) ==
  IF h[a].child_ = NULL THEN {}
  ELSE IF h[a].solid_children_
    THEN UNION {OwnedBy(h, h[a].child_ + i) : i \in 0..(h[a].num_edges_ - 1)}
    ELSE OwnedBy(h, h[a].child_)

\* ReleaseChildren that always says the children are a linked list.
ReleaseChildrenAsList(h, q, a) ==
  [h |-> [h EXCEPT ![a].child_ = NULL], q |-> AddToGcQueue(q, h[a].child_, 0)]

\* Node::ReleaseChildren
ReleaseChildren(h, q, a) ==
  [h |-> [h EXCEPT ![a].child_ = NULL],
   q |-> AddToGcQueue(q, h[a].child_,
                      IF h[a].solid_children_ THEN h[a].num_edges_ ELSE 0)]

\* ReleaseChildrenExceptOne that does not repoint the saved node's children.
ReleaseExceptOneSolidKeepParents(h, q, a, node_to_save) ==
  LET new_child == NewAddr(h)
      h1 == h @@ (new_child :> FreshNode(a, h[node_to_save].index_))
      h2 == MoveAssign(h1, new_child, node_to_save)
      q1 == AddToGcQueue(q, h[a].child_, h[a].num_edges_)
  IN  [h |-> [h2 EXCEPT ![a].child_ = new_child, ![a].solid_children_ = FALSE],
       q |-> q1]

(* Node::ReleaseChildrenExceptOne, solid layout (lines 697-706).  The      *)
(* node to save is one of the slots.                                       *)
ReleaseExceptOneSolid(h, q, a, node_to_save) ==
  LET new_child == NewAddr(h)
      h1 == h @@ (new_child :> FreshNode(a, h[node_to_save].index_))
      h2 == MoveAssign(h1, new_child, node_to_save)
      q1 == AddToGcQueue(q, h[a].child_, h[a].num_edges_)
      h3 == [h2 EXCEPT ![a].child_ = new_child]
  IN  Once(UpdateChildrenParents(h3, new_child), LAMBDA h4 :
        [h |-> [h4 EXCEPT ![a].solid_children_ = FALSE], q |-> q1])

(* Node::ReleaseChildrenExceptOne, linked-list layout (lines 707-724): the *)
(* siblings after the node to save are queued, then the chain before it;   *)
(* a node that is not in the list (or null) saves nothing.                 *)
ReleaseExceptOneList(h, q, a, node_to_save) ==
  LET list == SiblingList(h, h[a].child_)
      found == {i \in 1..Len(list) : list[i] = node_to_save}
  IN  IF found = {}
        THEN [h |-> [h EXCEPT ![a].child_ = NULL],
              q |-> AddToGcQueue(q, h[a].child_, 0)]
      ELSE
        LET k == CHOOSE i \in found : TRUE
            q1 == AddToGcQueue(q, h[node_to_save].sibling_, 0)
            h1 == [h EXCEPT ![node_to_save].sibling_ = NULL]
            h2 == IF k = 1 THEN [h1 EXCEPT ![a].child_ = NULL]
                  ELSE [h1 EXCEPT ![list[k - 1]].sibling_ = NULL]
            q2 == AddToGcQueue(q1, h2[a].child_, 0)
        IN  [h |-> [h2 EXCEPT ![a].child_ = node_to_save], q |-> q2]

\* Node::ReleaseChildrenExceptOne
ReleaseChildrenExceptOne(h, q, a, node_to_save) ==
  Once(IF h[a].solid_children_ THEN ReleaseExceptOneSolid(h, q, a, node_to_save)
       ELSE ReleaseExceptOneList(h, q, a, node_to_save),
       LAMBDA r :
         IF r.h[a].child_ = NULL
           THEN [h |-> [r.h EXCEPT ![a].num_edges_ = 0, ![a].has_edges_ = FALSE,
                                   ![a].edges_ = <<>>],
                 q |-> r.q]
           ELSE r)

(* Node::CreateSingleChildNode without its assertions: the child that was  *)
(* there, if any, is destroyed with all it owns.                           *)
CreateSingleChildNode(h, a, move) ==
  LET old == OwnedChildren(h, a)
      kept == [x \in (DOMAIN h) \ old |-> h[x]]
      new == NewAddr(h)
  IN  [h |-> [kept EXCEPT ![a].has_edges_ = TRUE,
                          ![a].edges_ = FromMovelist(<<move>>),
                          ![a].num_edges_ = 1,
                          ![a].child_ = new] @@ (new :> FreshNode(a, 0)),
       node |-> new]

(* The legal moves of the position reached by `moves`.  Positions are      *)
(* known by the moves that lead to them; a move is a number, the same seen *)
(* from either side (Mirror and GetModernMove leave it as it is).          *)
LegalMoves(moves) == [i \in 1..NumTreeMoves |-> i]

\* NodeTree::MakeMove, lines 855-864: the node for the edge with the move.
FindNewHead(h, head, move) ==
  LET hit == {i \in 1..h[head].num_edges_ : h[head].edges_[i].move_ = move}
  IN  IF hit = {} THEN [h |-> h, node |-> NULL]
      ELSE Once(GetOrSpawnNode(h, head, (CHOOSE i \in hit : TRUE) - 1),
                LAMBDA sp :
                  IF IsTerminal(sp.h[sp.node])
                    THEN [h |-> MakeNotTerminal(sp.h, sp.node), node |-> sp.node]
                    ELSE sp)

(* Where MakeMove ends the program.  On a head with solid children that   *)
(* has no edge for the move no node is found: without analyse mode         *)
(* ReleaseChildrenExceptOne reads index_ through the null node_to_save,    *)
(* and in analyse mode CreateSingleChildNode fails its assertions or       *)
(* deletes the array of slots as if it were one node.                      *)
MakeMoveEnds(h, t, move) ==
  /\ h[t.current_head_].solid_children_
  /\ \A i \in 1..h[t.current_head_].num_edges_ :
       h[t.current_head_].edges_[i].move_ # move

\* NodeTree::MakeMove
MakeMove(h, q, t, move, analyse_mode) ==
  LET head == t.current_head_
      h1 == IF analyse_mode /\ ~h[head].has_edges_
              THEN CreateEdges(h, head, LegalMoves(t.history_.moves))
              ELSE h
  IN  Once(FindNewHead(h1, head, move), LAMBDA f :
        Once(IF analyse_mode THEN [h |-> f.h, q |-> q, node |-> f.node]
             ELSE Once(ReleaseChildrenExceptOne(f.h, q, head, f.node),
                       LAMBDA r : [h |-> r.h, q |-> r.q,
                                   node |-> r.h[head].child_]),
             LAMBDA g :
               Once(IF g.node # NULL THEN [h |-> g.h, node |-> g.node]
                    ELSE CreateSingleChildNode(g.h, head, move),
                    LAMBDA c :
                      [h |-> c.h, q |-> g.q,
                       t |-> [t EXCEPT !.current_head_ = c.node,
                                       !.history_.moves = Append(@, move)]])))

\* TrimTreeAtHead that makes the head a node without parent.
TrimTreeAtHeadLosesParent(h, q, t) ==
  LET head == t.current_head_
      tmp == h[head].sibling_
  IN  Once(ReleaseChildren(h, q, head), LAMBDA r :
        [h |-> [r.h EXCEPT ![head] =
                  [FreshNode(NULL, h[head].index_) EXCEPT !.sibling_ = tmp]],
         q |-> r.q, t |-> t])

\* NodeTree::TrimTreeAtHead
TrimTreeAtHead(h, q, t) ==
  LET head == t.current_head_
      tmp == h[head].sibling_
  IN  Once(ReleaseChildren(h, q, head), LAMBDA r :
        [h |-> [r.h EXCEPT ![head] =
                  [FreshNode(h[head].parent_, h[head].index_)
                     EXCEPT !.sibling_ = tmp]],
         q |-> r.q, t |-> t])

\* NodeTree::DeallocateTree
DeallocateTree(h, q, t) ==
  [h |-> h, q |-> AddToGcQueue(q, t.gamebegin_node_, 0),
   t |-> [t EXCEPT !.gamebegin_node_ = NULL, !.current_head_ = NULL]]

(* NodeTree::ResetToPosition, the loop over the moves (lines 908-911):     *)
(* the state and seen_old_head after the moves from idx on, or ended where *)
(* a MakeMove ends the program.                                            *)
RECURSIVE ResetWalk(_, _, _, _, _, _)
ResetWalk(st, moves, idx, analyse_mode, old_head, seen_old_head) ==
  IF idx > Len(moves)
    THEN [st |-> st, seen_old_head |-> seen_old_head, ended |-> FALSE]
  ELSE IF MakeMoveEnds(st.h, st.t, moves[idx])
    THEN [st |-> st, seen_old_head |-> seen_old_head, ended |-> TRUE]
  ELSE Once(MakeMove(st.h, st.q, st.t, moves[idx], analyse_mode), LAMBDA st1 :
         ResetWalk(st1, moves, idx + 1, analyse_mode, old_head,
                   seen_old_head \/ old_head = st1.t.current_head_))

(* NodeTree::ResetToPosition.  starting stands for the board and the       *)
(* 50-move counter the FEN gives.                                          *)
ResetToPosition(h, q, t, starting, moves, analyse_mode) ==
  LET st0 == IF t.gamebegin_node_ # NULL /\ t.history_.starting # starting
               THEN DeallocateTree(h, q, t)
               ELSE [h |-> h, q |-> q, t |-> t]
      fresh == NewAddr(st0.h)
      st1 == IF st0.t.gamebegin_node_ = NULL
               THEN [h |-> st0.h @@ (fresh :> FreshNode(NULL, 0)), q |-> st0.q,
                     t |-> [st0.t EXCEPT !.gamebegin_node_ = fresh]]
               ELSE st0
      old_head == st1.t.current_head_
      st2 == [st1 EXCEPT !.t.history_ = [starting |-> starting, moves |-> <<>>],
                         !.t.current_head_ = st1.t.gamebegin_node_]
  IN  Once(st2, LAMBDA s2 :
        Once(ResetWalk(s2, moves, 1, analyse_mode, old_head,
                       s2.t.gamebegin_node_ = old_head),
             LAMBDA w :
               [st |-> IF ~w.ended /\ ~w.seen_old_head /\ ~analyse_mode
                         THEN TrimTreeAtHead(w.st.h, w.st.q, w.st.t)
                         ELSE w.st,
                ret |-> w.seen_old_head,
                ended |-> w.ended]))

\* Destruction that drops the root alone, whatever the solid size.
DestroyRootOnly(h, node, solid_size) ==
  [x \in (DOMAIN h) \ {node} |-> h[x]]

(* What GarbageCollect destroys with a subtree taken from the queue (lines *)
(* 91-98): the nodes of the solid_size slots of an array, or the nodes the *)
(* unique_ptr owns.                                                        *)
DestroySubtree(h, node, solid_size) ==
  LET dead == IF solid_size # 0
                THEN UNION {OwnedBy(h, node + i) : i \in 0..(solid_size - 1)}
                ELSE OwnedBy(h, node)
  IN  [x \in (DOMAIN h) \ dead |-> h[x]]

(* NodeGarbageCollector::GarbageCollect, one turn of its loop: the last    *)
(* subtree of the queue is taken and destroyed.                            *)
CollectOne(h, q) ==
  [h |-> DestroySubtree(h, q[Len(q)].node, q[Len(q)].solid_size),
   q |-> SubSeq(q, 1, Len(q) - 1)]

---------------------------------------------------------------------------
(* The inputs the operations are called with. *)

Root == 1

(* (v, d, m) of the evaluation backed up into a node: a terminal node is   *)
(* worth what it was found to be; any other position below the root is     *)
(* worth (0.3, 0.2, 40) to its side to move, which the root sees from the  *)
(* other side and one ply earlier.                                         *)
EvalOf(h, a) ==
  IF IsTerminal(h[a]) THEN [v |-> h[a].wl_, d |-> h[a].d_, m |-> h[a].m_]
  ELSE IF a = Root THEN [v |-> <<-3, 10>>, d |-> <<1, 5>>, m |-> R(41)]
  ELSE [v |-> <<3, 10>>, d |-> <<1, 5>>, m |-> R(40)]

Multivisits == 1..MaxK
MultivisitsEff == {1}

\* What a position can be found to be: (result, plies_left, type).
TerminalCalls ==
  { <<DRAW, R(1), "TwoFold">>, <<DRAW, R(1), "EndOfGame">>,
    <<WHITE_WON, R(1), "EndOfGame">>, <<BLACK_WON, R(1), "EndOfGame">>,
    <<BLACK_WON, R(3), "EndOfGame">>, <<WHITE_WON, R(3), "Tablebase">>,
    <<BLACK_WON, R(3), "Tablebase">> }

\* The priors the network gives the root's moves, highest first (the order
\* SortEdges leaves).
RootPriors ==
  { <<Float_1>>, <<Float_Half, Float_Quarter>>, <<Float_Half, Float_Half>> }

SetPriors(h, a, floats) ==
  [h EXCEPT ![a].edges_ =
     [i \in 1..Len(floats) |-> [@[i] EXCEPT !.p_ = SetP(floats[i])]]]

\* The tree after construction and expansion of the root.
RootTree(floats) ==
  LET h0 == (Root :> FreshNode(NULL, 0))
      h1 == CreateEdges(h0, Root, [i \in 1..Len(floats) |-> i])
  IN  SetPriors(h1, Root, floats)

Nodes == DOMAIN heap

\* No NodeTree: the node operations are called on a bare root.
NoTree ==
  [gamebegin_node_ |-> NULL, current_head_ |-> NULL,
   history_ |-> [starting |-> 0, moves |-> <<>>]]

\* The reclaimer at rest, where its queue is followed as gcq alone.
NoGc == [subtrees_to_gc_ |-> <<>>, subtrees_to_gc_solid_size_ |-> <<>>,
         gc_mutex_ |-> 0, stop_ |-> FALSE]

\* The workers' variables, which the single-caller specifications leave alone.
NoWorkers ==
  /\ tree = NoTree
  /\ gc = NoGc
  /\ wpc = <<>>
  /\ wreg = <<>>
  /\ started = 0
  /\ closes = 0
  /\ closedK = 0
  /\ kmax = 0

WorkersUnchanged == UNCHANGED <<wpc, wreg, started, closes, closedK, kmax, tree, gc>>

---------------------------------------------------------------------------
(* The operations on the tree, called one at a time. *)

Step(h) ==
  /\ steps < MaxSteps
  /\ heap' = h
  /\ steps' = steps + 1
  /\ UNCHANGED gcq
  /\ WorkersUnchanged

DoTryStartScoreUpdate(a) == Step(TryStartScoreUpdate(heap, a).h)

\* A caller cancels or finalizes only visits that are in flight.
DoCancelScoreUpdate(a, k) ==
  /\ heap[a].n_in_flight_ >= k
  /\ Step(CancelScoreUpdate(heap, a, k))

DoFinalizeScoreUpdate(a, k, keff, inflate, full) ==
  /\ heap[a].n_in_flight_ >= k
  /\ Step(FinalizeScoreUpdate(heap, a, EvalOf(heap, a).v, EvalOf(heap, a).d, EvalOf(heap, a).m,
                              k, keff, inflate, full))

DoGetOrSpawnNode(a, idx) ==
  /\ EdgeNodes(heap, a)[idx + 1] = NULL
  /\ Step(GetOrSpawnNode(heap, a, idx).h)

\* The search finds a position terminal when it reaches it, before expanding it.
DoMakeTerminal(a, call, inflate) ==
  /\ ~heap[a].has_edges_
  /\ Step(MakeTerminal(heap, a, call[1], call[2], call[3], inflate))

DoMakeNotTerminal(a) ==
  /\ IsTerminal(heap[a])
  /\ Step(MakeNotTerminal(heap, a))

\* Visits are taken back only from a node that has some.
DoRevertTerminalVisits(a, k) ==
  /\ heap[a].n_ > 0
  /\ Step(RevertTerminalVisits(heap, a, EvalOf(heap, a).v, EvalOf(heap, a).d, EvalOf(heap, a).m, k))

DoRecalculateScoreBetamcts(a) ==
  /\ heap[a].has_edges_
  /\ Step(RecalculateScoreBetamcts(heap, a))

Init ==
  /\ \E floats \in RootPriors : heap = RootTree(floats)
  /\ gcq = <<>>
  /\ steps = 0
  /\ NoWorkers

Next ==
  \/ \E a \in Nodes : DoTryStartScoreUpdate(a)
  \/ \E a \in Nodes, k \in Multivisits : DoCancelScoreUpdate(a, k)
  \/ \E a \in Nodes, k \in Multivisits, keff \in MultivisitsEff,
        inflate \in BOOLEAN, full \in BOOLEAN :
       DoFinalizeScoreUpdate(a, k, keff, inflate, full)
  \/ \E a \in Nodes : \E idx \in 0..(heap[a].num_edges_ - 1) :
       DoGetOrSpawnNode(a, idx)
  \/ \E a \in Nodes, call \in TerminalCalls, inflate \in BOOLEAN :
       DoMakeTerminal(a, call, inflate)
  \/ \E a \in Nodes : DoMakeNotTerminal(a)
  \/ \E a \in Nodes, k \in Multivisits : DoRevertTerminalVisits(a, k)
  \/ \E a \in Nodes : DoRecalculateScoreBetamcts(a)

Spec == Init /\ [][Next]_vars


---------------------------------------------------------------------------
(* Search workers that call the visit protocol on one leaf without any     *)
(* lock around a call.  Each access to n_ and n_in_flight_ is atomic (an   *)
(* atomic load, or an atomic read-modify-write for ++ and -=); a call is   *)
(* the sequence of its accesses, and the workers' accesses interleave.     *)

Workers == 1..NumWorkers
Leaf == 2

\* An atomic read-modify-write of n_in_flight_.
FetchAddInFlight(h, a, delta) == [h EXCEPT ![a].n_in_flight_ = @ + delta]

\* The tree the workers search: a root with one move, its child just spawned.
LeafTree == GetOrSpawnNode(RootTree(<<Float_1>>), Root, 0).h

\* A worker calls TryStartScoreUpdate.
WCall(w) ==
  /\ wpc[w] = "idle"
  /\ steps < MaxCalls
  /\ steps' = steps + 1
  /\ wpc' = [wpc EXCEPT ![w] = "read_n"]
  /\ UNCHANGED <<heap, gcq, wreg, started, closes, closedK, kmax, tree, gc>>

\* TryStartScoreUpdate, line 567: n_ == 0, the left operand of &&.
WReadN(w) ==
  /\ wpc[w] = "read_n"
  /\ wpc' = [wpc EXCEPT ![w] = IF heap[Leaf].n_ = 0 THEN "read_in_flight"
                                ELSE "increment"]
  /\ UNCHANGED <<heap, gcq, steps, wreg, started, closes, closedK, kmax, tree, gc>>

\* TryStartScoreUpdate, line 567: n_in_flight_ > 0, and return false.
WReadInFlight(w) ==
  /\ wpc[w] = "read_in_flight"
  /\ wpc' = [wpc EXCEPT ![w] = IF U32Positive(heap[Leaf].n_in_flight_)
                                 THEN "idle" ELSE "increment"]
  /\ UNCHANGED <<heap, gcq, steps, wreg, started, closes, closedK, kmax, tree, gc>>

\* TryStartScoreUpdate, lines 568-569: ++n_in_flight_, and return true.
WIncrement(w) ==
  /\ wpc[w] = "increment"
  /\ heap' = FetchAddInFlight(heap, Leaf, 1)
  /\ started' = started + 1
  /\ wpc' = [wpc EXCEPT ![w] = "visiting"]
  /\ UNCHANGED <<gcq, steps, wreg, closes, closedK, kmax, tree, gc>>

\* The worker gives its visit up.
WCancel(w, k) ==
  /\ wpc[w] = "visiting"
  /\ heap' = CancelScoreUpdate(heap, Leaf, k)
  /\ closes' = closes + 1
  /\ closedK' = closedK + k
  /\ wpc' = [wpc EXCEPT ![w] = "idle"]
  /\ UNCHANGED <<gcq, steps, wreg, started, kmax, tree, gc>>

\* The worker backs its visit up: FinalizeScoreUpdate as far as n_ += k.
WFinalizeStats(w, k) ==
  /\ wpc[w] = "visiting"
  /\ heap' = FinalizeStats(heap, Leaf, EvalOf(heap, Leaf).v, EvalOf(heap, Leaf).d,
                           EvalOf(heap, Leaf).m, k, 1, TRUE)
  /\ wpc' = [wpc EXCEPT ![w] = "release"]
  /\ wreg' = [wreg EXCEPT ![w].multivisit = k]
  /\ UNCHANGED <<gcq, steps, started, closes, closedK, kmax, tree, gc>>

\* FinalizeScoreUpdate from n_in_flight_ -= k on.
WFinalizeRelease(w) ==
  /\ wpc[w] = "release"
  /\ heap' = FinalizeRelease(heap, Leaf, wreg[w].multivisit, TRUE)
  /\ closes' = closes + 1
  /\ closedK' = closedK + wreg[w].multivisit
  /\ wpc' = [wpc EXCEPT ![w] = "idle"]
  /\ UNCHANGED <<gcq, steps, wreg, started, kmax, tree, gc>>

InitVisitWith(km) ==
  /\ heap = LeafTree
  /\ gcq = <<>>
  /\ steps = 0
  /\ wpc = [w \in Workers |-> "idle"]
  /\ wreg = [w \in Workers |-> [multivisit |-> 0]]
  /\ started = 0
  /\ closes = 0
  /\ closedK = 0
  /\ kmax = km
  /\ tree = NoTree
  /\ gc = NoGc

NextVisit ==
  \/ \E w \in Workers : WCall(w)
  \/ \E w \in Workers : WReadN(w)
  \/ \E w \in Workers : WReadInFlight(w)
  \/ \E w \in Workers : WIncrement(w)
  \/ \E w \in Workers, k \in 1..kmax : WCancel(w, k)
  \/ \E w \in Workers, k \in 1..kmax : WFinalizeStats(w, k)
  \/ \E w \in Workers : WFinalizeRelease(w)

\* Every visit is closed with multivisit 1.
InitVisit == InitVisitWith(1)
SpecVisit == InitVisit /\ [][NextVisit]_vars

\* A visit is closed with any multivisit up to MaxK.
InitVisitK == InitVisitWith(MaxK)
SpecVisitK == InitVisitK /\ [][NextVisit]_vars


---------------------------------------------------------------------------
(* Solidification.  A search visits the moves of a root with               *)
(* NumSolidEdges moves, and now and then a node is asked to make its       *)
(* children solid.                                                         *)

\* The root after construction, expansion and its own evaluation.
SolidRoot ==
  LET h == RootTree([i \in 1..NumSolidEdges |-> Float_Quarter])
  IN  FinalizeScoreUpdate(TryStartScoreUpdate(h, Root).h, Root,
                          EvalOf(h, Root).v, EvalOf(h, Root).d,
                          EvalOf(h, Root).m, 1, 1, TRUE, TRUE)

StepSolid(h, q) ==
  /\ steps < MaxSolidSteps
  /\ heap' = h
  /\ gcq' = q
  /\ steps' = steps + 1
  /\ WorkersUnchanged

\* The nodes of the tree: the root and every node that has a parent.  (A
\* node emptied into a solid slot has none and waits for the reclaimer.)
LiveNodes == {a \in Nodes : a = Root \/ heap[a].parent_ # NULL}

\* The child for edge idx of the root, or NULL.
ChildAt(idx) == EdgeNodes(heap, Root)[idx + 1]

DoMakeSolid(a) ==
  LET r == MakeSolid(heap, gcq, a)
  IN  StepSolid(r.h, r.q)

(* A visit descends through the root into the child for edge idx, which it *)
(* spawns when there is none, and claims both.                             *)
DoDescend(idx) ==
  LET sp == GetOrSpawnNode(heap, Root, idx)
      r == TryStartScoreUpdate(sp.h, sp.node)
  IN  /\ r.ret
      /\ StepSolid(TryStartScoreUpdate(r.h, Root).h, gcq)

\* A visit claims the root and collides below it: no child is claimed.
DoCollide ==
  /\ heap[Root].n_in_flight_ < NumSolidEdges
  /\ StepSolid(TryStartScoreUpdate(heap, Root).h, gcq)

\* The backup of a visit in flight at a child: into the child, then the root.
Backup(h, c) ==
  Once(FinalizeScoreUpdate(h, c, EvalOf(h, c).v, EvalOf(h, c).d,
                           EvalOf(h, c).m, 1, 1, TRUE, TRUE),
       LAMBDA h1 :
         FinalizeScoreUpdate(h1, Root, EvalOf(h, Root).v, EvalOf(h, Root).d,
                             EvalOf(h, Root).m, 1, 1, TRUE, TRUE))

DoBackup(idx) ==
  /\ ChildAt(idx) # NULL
  /\ heap[ChildAt(idx)].n_in_flight_ >= 1
  /\ heap[Root].n_in_flight_ >= 1
  /\ StepSolid(Backup(heap, ChildAt(idx)), gcq)

\* The claimed leaf turns out to be a drawn position, and that is backed up.
DoBackupTerminal(idx) ==
  /\ ChildAt(idx) # NULL
  /\ heap[ChildAt(idx)].n_ = 0
  /\ heap[ChildAt(idx)].n_in_flight_ >= 1
  /\ heap[Root].n_in_flight_ >= 1
  /\ StepSolid(Once(MakeTerminal(heap, ChildAt(idx), DRAW, R(1), "EndOfGame",
                                 TRUE),
                    LAMBDA h : Backup(h, ChildAt(idx))), gcq)

\* A visited child is expanded: it gets its one move and the child for it.
DoExpand(idx) ==
  /\ ChildAt(idx) # NULL
  /\ heap[ChildAt(idx)].n_ > 0
  /\ ~IsTerminal(heap[ChildAt(idx)])
  /\ ~heap[ChildAt(idx)].has_edges_
  /\ StepSolid(GetOrSpawnNode(CreateEdges(heap, ChildAt(idx), <<1>>),
                              ChildAt(idx), 0).h, gcq)

InitSolid ==
  /\ heap = SolidRoot
  /\ gcq = <<>>
  /\ steps = 0
  /\ NoWorkers

NextSolid ==
  \/ \E a \in LiveNodes : DoMakeSolid(a)
  \/ \E idx \in 0..(NumSolidEdges - 1) : DoDescend(idx)
  \/ DoCollide
  \/ \E idx \in 0..(NumSolidEdges - 1) : DoBackup(idx)
  \/ \E idx \in 0..(NumSolidEdges - 1) : DoBackupTerminal(idx)
  \/ \E idx \in 0..(NumSolidEdges - 1) : DoExpand(idx)

SpecSolid == InitSolid /\ [][NextSolid]_vars

---------------------------------------------------------------------------
(* Expansion of one node: its edges are created, given priors and sorted,  *)
(* children are spawned and made solid.  A build has assertions compiled   *)
(* in or not (NDEBUG); a call whose assertion fails ends the program.      *)

Float_1e10 == 786163455    \* 0x2EDBE6FF, 1e-10f
Float_MinP == 805306368    \* 0x30000000, 3 << 28: 2^-31

\* The floats given to SetP: 0.0, 1e-10, and runs of bit patterns a quarter
\* of a code apart, ending at 1.0, at 0.5 and just above 2^-31.
PriorFloats ==
  {Float_0, Float_1e10} \cup
  {b - k * 1024 : b \in {Float_1, Float_Half, Float_MinP + 2048},
                  k \in 0..MaxPriorSteps}

\* The move lists edges are created from; the empty one is that of a
\* position without legal moves.
MoveLists == {[i \in 1..n |-> i] : n \in 0..NumEdgeMoves}

\* assert(cond) in a build with assertions (asserts) or without.
AssertFails(asserts, cond) == asserts /\ ~cond

\* The orders std::sort may leave edges in: every arrangement that is
\* non-increasing in raw p_ (the order of equal elements is unspecified).
SortedOrders(edges) ==
  LET n == Len(edges)
      perms == {f \in [1..n -> 1..n] : \A i, j \in 1..n : i # j => f[i] # f[j]}
  IN  {[i \in 1..n |-> edges[f[i]]] : f \in
         {g \in perms : \A i \in 1..(n - 1) : edges[g[i]].p_ >= edges[g[i + 1]].p_}}

\* SortEdges that sorts whether or not a child exists.
SortEdgesAnyway(h, a) ==
  {[h EXCEPT ![a].edges_ = order] : order \in SortedOrders(h[a].edges_)}

\* Node::SortEdges without its assertions: the heaps it may leave.
SortEdges(h, a) ==
  IF h[a].child_ = NULL
    THEN {[h EXCEPT ![a].edges_ = order] : order \in SortedOrders(h[a].edges_)}
    ELSE {h}

\* Node::SortEdges: the outcome of a call and the heaps it may leave.
SortEdgesCall(h, a, asserts) ==
  IF AssertFails(asserts, h[a].has_edges_) \/ AssertFails(asserts, h[a].child_ = NULL)
    THEN [hs |-> {h}, outcome |-> "assertion_failure"]
    ELSE [hs |-> SortEdges(h, a), outcome |-> "returned"]

\* Node::CreateEdges: the outcome of a call and the heap it leaves.
CreateEdgesCall(h, a, moves, asserts) ==
  IF AssertFails(asserts, ~h[a].has_edges_) \/ AssertFails(asserts, h[a].child_ = NULL)
    THEN [h |-> h, outcome |-> "assertion_failure"]
    ELSE [h |-> CreateEdges(h, a, moves), outcome |-> "returned"]

(* Node::GetEdgeToNode: the outcome of a call and the index of the edge    *)
(* whose address it returns.  Nothing is written.                          *)
GetEdgeToNodeCall(h, a, node, asserts) ==
  IF AssertFails(asserts, h[node].parent_ = a)
     \/ AssertFails(asserts, h[node].index_ < h[a].num_edges_)
    THEN [h |-> h, outcome |-> "assertion_failure", edge |-> 0]
    ELSE [h |-> h, outcome |-> "returned", edge |-> h[node].index_]

\* Edge::SetP on the edge for `move` of node a.
SetEdgeP(h, a, move, bits) ==
  [h EXCEPT ![a].edges_ =
     [i \in 1..Len(@) |-> IF @[i].move_ = move THEN [@[i] EXCEPT !.p_ = SetP(bits)]
                          ELSE @[i]]]

\* The edge for `move` of node a.
EdgeOfMove(h, a, move) ==
  h[a].edges_[CHOOSE i \in 1..Len(h[a].edges_) : h[a].edges_[i].move_ = move]

\* Node::MakeSolid: the outcome of a call; it asserts nothing.
MakeSolidCall(h, q, a, asserts) ==
  [r |-> MakeSolid(h, q, a), outcome |-> "returned"]

StepEdges(h, q, locals) ==
  /\ steps < MaxEdgeSteps
  /\ heap' = h
  /\ gcq' = q
  /\ wreg' = locals
  /\ steps' = steps + 1
  /\ UNCHANGED <<wpc, started, closes, closedK, kmax, tree, gc>>

\* A call returns only where no assertion of the build fails.
DoCreateEdgesCall(moves) ==
  \E asserts \in BOOLEAN :
    LET r == CreateEdgesCall(heap, Root, moves, asserts)
    IN  /\ r.outcome = "returned"
        /\ StepEdges(r.h, gcq, wreg)

\* The caller's locals keep the move and the float of its last SetP.
DoSetP(move, bits) ==
  /\ \E i \in 1..Len(heap[Root].edges_) : heap[Root].edges_[i].move_ = move
  /\ StepEdges(SetEdgeP(heap, Root, move, bits), gcq, [move |-> move, p |-> bits])

DoSortEdgesCall ==
  \E asserts \in BOOLEAN :
    LET r == SortEdgesCall(heap, Root, asserts)
    IN  /\ r.outcome = "returned"
        /\ \E h \in r.hs : StepEdges(h, gcq, wreg)

DoSpawnChild(idx) ==
  /\ EdgeNodes(heap, Root)[idx + 1] = NULL
  /\ StepEdges(GetOrSpawnNode(heap, Root, idx).h, gcq, wreg)

DoMakeSolidCall ==
  \E asserts \in BOOLEAN :
    LET c == MakeSolidCall(heap, gcq, Root, asserts)
    IN  /\ c.outcome = "returned"
        /\ StepEdges(c.r.h, c.r.q, wreg)

InitEdges ==
  /\ heap = (Root :> FreshNode(NULL, 0))
  /\ gcq = <<>>
  /\ steps = 0
  /\ wreg = [move |-> 0, p |-> Float_0]
  /\ wpc = <<>>
  /\ started = 0
  /\ closes = 0
  /\ closedK = 0
  /\ kmax = 0
  /\ tree = NoTree
  /\ gc = NoGc

NextEdges ==
  \/ \E moves \in MoveLists : DoCreateEdgesCall(moves)
  \/ \E move \in 1..NumEdgeMoves, bits \in PriorFloats : DoSetP(move, bits)
  \/ DoSortEdgesCall
  \/ \E idx \in 0..(heap[Root].num_edges_ - 1) : DoSpawnChild(idx)
  \/ DoMakeSolidCall

SpecEdges == InitEdges /\ [][NextEdges]_vars

---------------------------------------------------------------------------
(* The tree of a game.  Positions are set up and moves are made, in        *)
(* analyse mode or not; between them a search visits the subtree of the    *)
(* head and makes nodes of it solid, and the reclaimer destroys what was   *)
(* handed to it.                                                           *)


\* The games: the sequences of at most MaxPly legal moves.
RECURSIVE GamesOfLength(_)
GamesOfLength(n) ==
  IF n = 0 THEN {<<>>}
  ELSE {Append(g, m) : g \in GamesOfLength(n - 1), m \in 1..NumTreeMoves}

Games == UNION {GamesOfLength(n) : n \in 0..MaxPly}

(* The calls of ResetToPosition, as (starting, moves, analyse_mode): the   *)
(* games from starting position 1 in either mode, and starting position 2  *)
(* set up without moves.                                                   *)
ResetCalls ==
  {<<1, g, analyse_mode>> : g \in Games, analyse_mode \in BOOLEAN}
    \cup {<<2, <<>>, FALSE>>}

(* The prior the network gives `move` in the position reached by `moves`,  *)
(* one code apart: after an even number of moves the priors fall with the  *)
(* move's number, after an odd number they rise with it.                   *)
TreePrior(moves, move) ==
  IF Len(moves) % 2 = 1 THEN Float_Quarter + move * 4096
  ELSE Float_Half - move * 4096

\* The nodes the search works on: the head and all below it.
HeadNodes(h, t) ==
  IF t.current_head_ = NULL THEN {}
  ELSE {t.current_head_} \cup OwnedChildren(h, t.current_head_)

\* The moves that lead from the game-begin node to node a.
RECURSIVE PathOf(_, _)
PathOf(h, a) ==
  IF h[a].parent_ = NULL THEN <<>>
  ELSE Append(PathOf(h, h[a].parent_),
              h[h[a].parent_].edges_[h[a].index_ + 1].move_)

\* The expansion of a node on its first visit: edges for the legal moves,
\* their priors, then the sort.
ExpandNode(h, a) ==
  Once(CreateEdges(h, a, LegalMoves(PathOf(h, a))), LAMBDA h1 :
    Once(SetPriors(h1, a, [i \in 1..NumTreeMoves |->
                             TreePrior(PathOf(h, a), i)]),
         LAMBDA h2 :
      CHOOSE h3 \in SortEdges(h2, a) : TRUE))

\* The backup of one visit from node x up to the head.
RECURSIVE TreeBackup(_, _, _, _, _, _)
TreeBackup(h, x, head, v, d, m) ==
  Once(FinalizeScoreUpdate(TryStartScoreUpdate(h, x).h, x, v, d, m, 1, 1,
                           TRUE, TRUE),
       LAMBDA h1 :
         IF x = head THEN h1
         ELSE TreeBackup(h1, h[x].parent_, head, RNeg(v), d, RAdd(m, R(1))))

StepTree(st) ==
  /\ steps < MaxTreeSteps
  /\ heap' = st.h
  /\ gcq' = st.q
  /\ tree' = st.t
  /\ steps' = steps + 1
  /\ UNCHANGED <<wpc, wreg, started, closes, closedK, kmax, gc>>

DoResetToPosition(starting, moves, analyse_mode) ==
  LET r == ResetToPosition(heap, gcq, tree, starting, moves, analyse_mode)
  IN  /\ ~r.ended
      /\ StepTree(r.st)

DoMakeMove(move, analyse_mode) ==
  /\ tree.current_head_ # NULL
  /\ Len(tree.history_.moves) < MaxPly
  /\ ~MakeMoveEnds(heap, tree, move)
  /\ StepTree(MakeMove(heap, gcq, tree, move, analyse_mode))

DoTrimTreeAtHead ==
  /\ tree.current_head_ # NULL
  /\ StepTree(TrimTreeAtHead(heap, gcq, tree))

\* The first visit of the search: the head is expanded and evaluated.
DoVisitHead ==
  /\ tree.current_head_ # NULL
  /\ heap[tree.current_head_].n_ = 0
  /\ heap[tree.current_head_].child_ = NULL
  /\ LET head == tree.current_head_
         h1 == IF heap[head].has_edges_ THEN heap ELSE ExpandNode(heap, head)
     IN  StepTree([h |-> TreeBackup(h1, head, head, <<3, 10>>, <<1, 5>>, R(40)),
                   q |-> gcq, t |-> tree])

(* A visit of the search to edge idx of the visited node a below or at the *)
(* head: the child is spawned, then expanded and evaluated or found to be  *)
(* a drawn position, and the visit is backed up to the head.               *)
DoVisitChild(a, idx, terminal) ==
  /\ heap[a].n_ > 0
  /\ ~IsTerminal(heap[a])
  /\ idx < heap[a].num_edges_
  /\ EdgeN(heap, EdgeNodes(heap, a)[idx + 1]) = 0
  /\ LET sp == GetOrSpawnNode(heap, a, idx)
         h1 == IF terminal
                 THEN MakeTerminal(sp.h, sp.node, DRAW, R(1), "EndOfGame", TRUE)
               ELSE IF sp.h[sp.node].has_edges_ THEN sp.h
               ELSE ExpandNode(sp.h, sp.node)
         e == IF terminal THEN EvalOf(h1, sp.node)
              ELSE [v |-> <<3, 10>>, d |-> <<1, 5>>, m |-> R(40)]
     IN  /\ ~IsTerminal(sp.h[sp.node])
         /\ StepTree([h |-> TreeBackup(h1, sp.node, tree.current_head_,
                                       e.v, e.d, e.m),
                      q |-> gcq, t |-> tree])

DoTreeMakeSolid(a) ==
  LET r == MakeSolid(heap, gcq, a)
  IN  /\ r.ret
      /\ StepTree([h |-> r.h, q |-> r.q, t |-> tree])

DoGarbageCollect ==
  /\ gcq # <<>>
  /\ StepTree([h |-> CollectOne(heap, gcq).h, q |-> CollectOne(heap, gcq).q,
               t |-> tree])

InitTree ==
  /\ heap = <<>>
  /\ gcq = <<>>
  /\ steps = 0
  /\ tree = NoTree
  /\ gc = NoGc
  /\ wpc = <<>>
  /\ wreg = <<>>
  /\ started = 0
  /\ closes = 0
  /\ closedK = 0
  /\ kmax = 0

NextTree ==
  \/ \E c \in ResetCalls : DoResetToPosition(c[1], c[2], c[3])
  \/ \E move \in 1..NumTreeMoves, analyse_mode \in BOOLEAN :
       DoMakeMove(move, analyse_mode)
  \/ DoTrimTreeAtHead
  \/ DoVisitHead
  \/ \E a \in HeadNodes(heap, tree), idx \in 0..(NumTreeMoves - 1),
        terminal \in BOOLEAN :
       DoVisitChild(a, idx, terminal)
  \/ \E a \in HeadNodes(heap, tree) : DoTreeMakeSolid(a)
  \/ DoGarbageCollect

SpecTree == InitTree /\ [][NextTree]_vars

(* The game tree with the best-child cache.  The search records the edge   *)
(* it chose at a visited node at or below the head with UpdateBestChild;   *)
(* the visits and the operations on the tree are those above.              *)
VisitsAllowed == {1, 2}

DoUpdateBestChild(a, idx, visits_allowed) ==
  /\ heap[a].n_ > 0
  /\ ~IsTerminal(heap[a])
  /\ idx < heap[a].num_edges_
  /\ StepTree([h |-> UpdateBestChild(heap, a, EdgeNodes(heap, a)[idx + 1],
                                     visits_allowed),
               q |-> gcq, t |-> tree])

NextCache ==
  \/ NextTree
  \/ \E a \in HeadNodes(heap, tree), idx \in 0..(NumTreeMoves - 1),
        visits_allowed \in VisitsAllowed :
       DoUpdateBestChild(a, idx, visits_allowed)

SpecCache == InitTree /\ [][NextCache]_vars

---------------------------------------------------------------------------
(* The reclaimer's threads.  NumGcCallers threads hand subtrees to         *)
(* AddToGcQueue while the worker thread collects.  Here gc holds the       *)
(* members of NodeGarbageCollector, gcq records what was handed over, and  *)
(* the heap holds the nodes not yet destroyed.                             *)

GcCallers == 1..NumGcCallers
GcThread == NumGcCallers + 1

(* The subtrees the callers own at the start: subtree k has its root at    *)
(* address 2k - 1; every second one is a solid array of two slots.         *)
RootSize(k) == IF k % 2 = 0 THEN 2 ELSE 0
GcRoots == {[node |-> 2 * k - 1, solid_size |-> RootSize(k)] : k \in 1..NumGcRoots}

GcHeap ==
  [x \in UNION {IF r.solid_size = 0 THEN {r.node}
                ELSE r.node..(r.node + r.solid_size - 1) : r \in GcRoots}
     |-> FreshNode(NULL, 0)]

\* std::vector::pop_back that removes the first element.
PopFront(v) == Tail(v)

\* std::vector::back and pop_back
Back(v) == v[Len(v)]
PopBack(v) == SubSeq(v, 1, Len(v) - 1)

\* The roots no caller has passed to AddToGcQueue yet.
RootsInHand ==
  {r \in GcRoots :
     /\ \A k \in 1..Len(gcq) : gcq[k].node # r.node
     /\ \A p \in GcCallers : wreg[p].node # r.node}

StepGc(p, pc, locals, g) ==
  /\ wpc' = [wpc EXCEPT ![p] = pc]
  /\ wreg' = [wreg EXCEPT ![p] = locals]
  /\ gc' = g
  /\ UNCHANGED <<steps, started, closes, closedK, kmax, tree>>

\* A caller calls AddToGcQueue(node, solid_size), with a subtree or null.
GcCall(p, node, solid_size) ==
  /\ wpc[p] = "idle"
  /\ StepGc(p, "test", [node |-> node, solid_size |-> solid_size], gc)
  /\ UNCHANGED <<heap, gcq>>

\* Line 63: if (!node) return;
GcNullTest(p) ==
  /\ wpc[p] = "test"
  /\ IF wreg[p].node = NULL
       THEN StepGc(p, "idle", [node |-> NULL, solid_size |-> 0], gc)
       ELSE StepGc(p, "lock", wreg[p], gc)
  /\ UNCHANGED <<heap, gcq>>

\* Mutex::Lock's constructor: the thread waits until the mutex is free.
MutexLock(g, p) == [g EXCEPT !.gc_mutex_ = p]

\* Mutex::Lock's destructor
MutexUnlock(g) == [g EXCEPT !.gc_mutex_ = 0]

\* Line 64
GcCallerLock(p) ==
  /\ wpc[p] = "lock"
  /\ gc.gc_mutex_ = 0
  /\ StepGc(p, "emplace_back", wreg[p], MutexLock(gc, p))
  /\ UNCHANGED <<heap, gcq>>

\* Line 65
GcEmplaceBack(p) ==
  /\ wpc[p] = "emplace_back"
  /\ StepGc(p, "push_back", wreg[p],
            [gc EXCEPT !.subtrees_to_gc_ = Append(@, wreg[p].node)])
  /\ gcq' = AddToGcQueue(gcq, wreg[p].node, wreg[p].solid_size)
  /\ UNCHANGED heap

\* Line 66
GcPushBack(p) ==
  /\ wpc[p] = "push_back"
  /\ StepGc(p, "unlock", wreg[p],
            [gc EXCEPT !.subtrees_to_gc_solid_size_ = Append(@, wreg[p].solid_size)])
  /\ UNCHANGED <<heap, gcq>>

\* Line 67: the function returns and the lock is released.
GcCallerUnlock(p) ==
  /\ wpc[p] = "unlock"
  /\ StepGc(p, "idle", [node |-> NULL, solid_size |-> 0], MutexUnlock(gc))
  /\ UNCHANGED <<heap, gcq>>

\* Worker, lines 103-105: the loop test, the sleep, the call of GarbageCollect.
GcWorkerWake ==
  /\ wpc[GcThread] = "sleep"
  /\ StepGc(GcThread, IF gc.stop_ THEN "exited" ELSE "loop", wreg[GcThread], gc)
  /\ UNCHANGED <<heap, gcq>>

\* The loop test of GarbageCollect without the stop flag.
GcLoopTestIgnoresStop ==
  /\ wpc[GcThread] = "loop"
  /\ StepGc(GcThread, "lock", [node_to_gc |-> NULL, solid_size |-> 0], gc)
  /\ UNCHANGED <<heap, gcq>>

\* GarbageCollect, line 77: the loop test; the locals of a turn are made.
GcLoopTest ==
  /\ wpc[GcThread] = "loop"
  /\ StepGc(GcThread, IF gc.stop_ THEN "sleep" ELSE "lock",
            [node_to_gc |-> NULL, solid_size |-> 0], gc)
  /\ UNCHANGED <<heap, gcq>>

\* Line 84
GcWorkerLock ==
  /\ wpc[GcThread] = "lock"
  /\ gc.gc_mutex_ = 0
  /\ StepGc(GcThread, "empty", wreg[GcThread], MutexLock(gc, GcThread))
  /\ UNCHANGED <<heap, gcq>>

\* Line 85: an empty queue ends GarbageCollect, and the lock is released.
GcEmptyTest ==
  /\ wpc[GcThread] = "empty"
  /\ IF gc.subtrees_to_gc_ = <<>>
       THEN StepGc(GcThread, "sleep", wreg[GcThread], MutexUnlock(gc))
       ELSE StepGc(GcThread, "take_node", wreg[GcThread], gc)
  /\ UNCHANGED <<heap, gcq>>

\* Lines 86-87
GcTakeNode ==
  /\ wpc[GcThread] = "take_node"
  /\ StepGc(GcThread, "take_size",
            [wreg[GcThread] EXCEPT !.node_to_gc = Back(gc.subtrees_to_gc_)],
            [gc EXCEPT !.subtrees_to_gc_ = PopBack(@)])
  /\ UNCHANGED <<heap, gcq>>

\* Lines 88-89
GcTakeSize ==
  /\ wpc[GcThread] = "take_size"
  /\ StepGc(GcThread, "unlock",
            [wreg[GcThread] EXCEPT !.solid_size = Back(gc.subtrees_to_gc_solid_size_)],
            [gc EXCEPT !.subtrees_to_gc_solid_size_ = PopBack(@)])
  /\ UNCHANGED <<heap, gcq>>

\* Line 90: the block ends and the lock is released.
GcWorkerUnlock ==
  /\ wpc[GcThread] = "unlock"
  /\ StepGc(GcThread, "destroy", wreg[GcThread], MutexUnlock(gc))
  /\ UNCHANGED <<heap, gcq>>

\* Lines 91-99: the subtree is destroyed, as an array or by node_to_gc's
\* destructor at the end of the turn.
GcDestroy ==
  /\ wpc[GcThread] = "destroy"
  /\ heap' = DestroySubtree(heap, wreg[GcThread].node_to_gc,
                            wreg[GcThread].solid_size)
  /\ StepGc(GcThread, "loop", [node_to_gc |-> NULL, solid_size |-> 0], gc)
  /\ UNCHANGED gcq

\* ~NodeGarbageCollector, line 71: the stop flag is set.
GcStop ==
  /\ ~gc.stop_
  /\ gc' = [gc EXCEPT !.stop_ = TRUE]
  /\ UNCHANGED <<heap, gcq, wpc, wreg, steps, started, closes, closedK, kmax, tree>>

InitGc ==
  /\ heap = GcHeap
  /\ gcq = <<>>
  /\ gc = NoGc
  /\ wpc = [p \in GcCallers \cup {GcThread} |->
              IF p = GcThread THEN "sleep" ELSE "idle"]
  /\ wreg = [p \in GcCallers \cup {GcThread} |->
               IF p = GcThread THEN [node_to_gc |-> NULL, solid_size |-> 0]
               ELSE [node |-> NULL, solid_size |-> 0]]
  /\ steps = 0
  /\ started = 0
  /\ closes = 0
  /\ closedK = 0
  /\ kmax = 0
  /\ tree = NoTree

NextGc ==
  \/ \E p \in GcCallers, r \in RootsInHand : GcCall(p, r.node, r.solid_size)
  \/ \E p \in GcCallers : GcCall(p, NULL, 0)
  \/ \E p \in GcCallers : GcNullTest(p)
  \/ \E p \in GcCallers : GcCallerLock(p)
  \/ \E p \in GcCallers : GcEmplaceBack(p)
  \/ \E p \in GcCallers : GcPushBack(p)
  \/ \E p \in GcCallers : GcCallerUnlock(p)
  \/ GcWorkerWake
  \/ GcLoopTest
  \/ GcWorkerLock
  \/ GcEmptyTest
  \/ GcTakeNode
  \/ GcTakeSize
  \/ GcWorkerUnlock
  \/ GcDestroy
  \/ GcStop

SpecGc == InitGc /\ [][NextGc]_vars

(* Fair scheduling of the reclaimer's threads: the worker takes each of    *)
(* its steps when it can, and a caller that has the mutex goes on to       *)
(* release it.  Callers hand over finitely many subtrees, so the worker    *)
(* waiting for the mutex finds it free in the end.                         *)
GcFair ==
  /\ WF_vars(GcWorkerWake)
  /\ WF_vars(GcLoopTest)
  /\ WF_vars(GcWorkerLock)
  /\ WF_vars(GcEmptyTest)
  /\ WF_vars(GcTakeNode)
  /\ WF_vars(GcTakeSize)
  /\ WF_vars(GcWorkerUnlock)
  /\ WF_vars(GcDestroy)
  /\ \A p \in GcCallers :
       /\ WF_vars(GcEmplaceBack(p))
       /\ WF_vars(GcPushBack(p))
       /\ WF_vars(GcCallerUnlock(p))

SpecGcFair == InitGc /\ [][NextGc]_vars /\ GcFair

---------------------------------------------------------------------------
(* Properties of the operations called one at a time (Spec). *)

\* The (wl, d) that a game result stands for.
ResultWD(result) ==
  IF result = DRAW THEN <<R(0), R(1)>>
  ELSE IF result = WHITE_WON THEN <<R(1), R(0)>>
  ELSE <<R(-1), R(0)>>

\* The total n of the children of a node.
RECURSIVE SumN(_, _, _)
SumN(h, nodes, idx) ==
  IF idx > Len(nodes) THEN 0 ELSE EdgeN(h, nodes[idx]) + SumN(h, nodes, idx + 1)

ChildrenN(h, a) == SumN(h, EdgeNodes(h, a), 1)

(* C1: in every state, for every node, TryStartScoreUpdate returns false   *)
(* and changes nothing when n == 0 and n_in_flight > 0; in every other     *)
(* state it returns true and its only effect is n_in_flight + 1 on that    *)
(* node (n, the means, the terminal state and the children stay).          *)
C1_TryStartContract ==
  \A a \in Nodes :
    LET r == TryStartScoreUpdate(heap, a)
    IN  IF heap[a].n_ = 0 /\ heap[a].n_in_flight_ > 0
          THEN r.ret = FALSE /\ r.h = heap
          ELSE /\ r.ret = TRUE
               /\ r.h[a].n_in_flight_ = heap[a].n_in_flight_ + 1
               /\ \A b \in Nodes \ {a} : r.h[b] = heap[b]
               /\ DOMAIN r.h = Nodes
               /\ [r.h[a] EXCEPT !.n_in_flight_ = heap[a].n_in_flight_] = heap[a]

\* A leaf whose first visit is claimed, so that a second claim is refused,
\* next to a visited node with a visit in flight.
C1_Witness ==
  \E a, b \in Nodes :
    /\ heap[a].n_ = 0 /\ heap[a].n_in_flight_ = 1
    /\ ~TryStartScoreUpdate(heap, a).ret
    /\ heap[b].n_ > 0 /\ heap[b].n_in_flight_ = 1
    /\ TryStartScoreUpdate(heap, b).ret

\* Scenario S1: a root with one edge of prior 1.0; start(root), spawn the
\* child, start(child), Finalize(child), Finalize(root), default flags.
S1Start == TryStartScoreUpdate(RootTree(<<Float_1>>), Root).h
S1Spawn == GetOrSpawnNode(S1Start, Root, 0)
S1Child == S1Spawn.node
S1ChildStart == TryStartScoreUpdate(S1Spawn.h, S1Child).h
S1ChildDone ==
  FinalizeScoreUpdate(S1ChildStart, S1Child, <<3, 10>>, <<1, 5>>, R(40),
                      1, 1, TRUE, TRUE)
S1RootDone ==
  FinalizeScoreUpdate(S1ChildDone, Root, <<-3, 10>>, <<1, 5>>, R(41),
                      1, 1, TRUE, TRUE)

(* C5 as the specification states it: FinalizeScoreUpdate with multivisit  *)
(* k adds exactly k to n and takes exactly k from n_in_flight, for every   *)
(* node and both values of full_beta_update; and scenario S1 ends with     *)
(* child n = 1, root n = 1, root visited_policy = 1.0, no visit in flight. *)
C5_FinalizeCounts ==
  /\ \A a \in Nodes, k \in Multivisits, full \in BOOLEAN :
       heap[a].n_in_flight_ >= k =>
         LET h2 == FinalizeScoreUpdate(heap, a, EvalOf(heap, a).v, EvalOf(heap, a).d,
                                       EvalOf(heap, a).m, k, 1, TRUE, full)
         IN  /\ h2[a].n_ = heap[a].n_ + k
             /\ h2[a].n_in_flight_ = heap[a].n_in_flight_ - k
  /\ heap = S1RootDone =>
       /\ heap[S1Child].n_ = 1
       /\ heap[Root].n_ = 1
       /\ heap[Root].visited_policy_ = FixOfFloat(Float_1)
       /\ heap[S1Child].n_in_flight_ = 0 /\ heap[Root].n_in_flight_ = 0

(* C5, amended: FinalizeScoreUpdate with multivisit k takes exactly k from *)
(* n_in_flight; it adds exactly k to n when the node has no edges or       *)
(* full_beta_update is off, and otherwise leaves n = 1 + the sum of the    *)
(* children's n (the recalculation's correction).  Scenario S1 ends with   *)
(* child n = 1, root n = 2, root visited_policy = 1.0, no visit in flight. *)
C5_FinalizeCountsAmended ==
  /\ \A a \in Nodes, k \in Multivisits, full \in BOOLEAN :
       heap[a].n_in_flight_ >= k =>
         LET h2 == FinalizeScoreUpdate(heap, a, EvalOf(heap, a).v, EvalOf(heap, a).d,
                                       EvalOf(heap, a).m, k, 1, TRUE, full)
         IN  /\ h2[a].n_ = IF full /\ heap[a].has_edges_
                             THEN 1 + ChildrenN(heap, a)
                             ELSE heap[a].n_ + k
             /\ h2[a].n_in_flight_ = heap[a].n_in_flight_ - k
  /\ heap = S1RootDone =>
       /\ heap[S1Child].n_ = 1
       /\ heap[Root].n_ = 2
       /\ heap[Root].visited_policy_ = FixOfFloat(Float_1)
       /\ heap[S1Child].n_in_flight_ = 0 /\ heap[Root].n_in_flight_ = 0

\* Scenario S1 has been run to its end.
C5_Witness == heap = S1RootDone /\ steps = 5

\* Two floats that differ by less than 2^-20.
FixClose(x, y) ==
  LET d == FixNorm(x[1] - y[1], x[2] - y[2])
      m == IF FixIsNeg(d) THEN FixNeg(d) ELSE d
  IN  m[1] = 0 /\ m[2] < 4194304

(* C6: in every state, for every node with edges, visited_policy is the    *)
(* sum of the current decoded priors of exactly those children that have   *)
(* n > 0 (up to float rounding).                                           *)
C6_VisitedPolicy ==
  \A a \in Nodes :
    heap[a].has_edges_ =>
      FixClose(heap[a].visited_policy_,
               VisitedPolicySum(heap, a, EdgeNodes(heap, a), 1, FixZero))

(* C7 as the specification states it: in every state, every node whose     *)
(* terminal type is not NonTerminal has lower == upper and the (wl, d) of  *)
(* that result.                                                            *)
C7_TerminalInvariant ==
  \A a \in Nodes :
    IsTerminal(heap[a]) =>
      /\ heap[a].lower_bound_ = heap[a].upper_bound_
      /\ <<heap[a].wl_, heap[a].d_>> = ResultWD(heap[a].lower_bound_)

(* C7, amended: in every state, every node of type EndOfGame or Tablebase  *)
(* has lower == upper; and MakeTerminal(result, ., type, .) leaves the     *)
(* node with that type and the (wl, d) of result, with lower == upper ==   *)
(* result when type is not TwoFold and with its bounds untouched when it   *)
(* is TwoFold.                                                             *)
C7_TerminalInvariantAmended ==
  /\ \A a \in Nodes :
       heap[a].terminal_type_ \in {"EndOfGame", "Tablebase"} =>
         heap[a].lower_bound_ = heap[a].upper_bound_
  /\ \A a \in Nodes, call \in TerminalCalls, inflate \in BOOLEAN :
       LET h2 == MakeTerminal(heap, a, call[1], call[2], call[3], inflate)
       IN  /\ h2[a].terminal_type_ = call[3]
           /\ <<h2[a].wl_, h2[a].d_>> = ResultWD(call[1])
           /\ IF call[3] # "TwoFold"
                THEN h2[a].lower_bound_ = call[1] /\ h2[a].upper_bound_ = call[1]
                ELSE /\ h2[a].lower_bound_ = heap[a].lower_bound_
                     /\ h2[a].upper_bound_ = heap[a].upper_bound_

\* A node found a win for the side to move next to a two-fold draw whose
\* bounds are still open.
C7_Witness ==
  \E a, b \in Nodes :
    /\ heap[a].terminal_type_ = "EndOfGame"
    /\ heap[a].lower_bound_ = WHITE_WON /\ heap[a].upper_bound_ = WHITE_WON
    /\ heap[b].terminal_type_ = "TwoFold"
    /\ heap[b].lower_bound_ < heap[b].upper_bound_
    /\ <<heap[b].wl_, heap[b].d_>> = ResultWD(DRAW)

\* Every edge of the node has a child whose bounds are both B.
AllChildrenProven(h, a, B) ==
  /\ h[a].has_edges_
  /\ \A i \in 1..h[a].num_edges_ :
       LET c == EdgeNodes(h, a)[i]
       IN  c # NULL /\ h[c].lower_bound_ = B /\ h[c].upper_bound_ = B

(* C8: when RecalculateScoreBetamcts runs on a node all of whose children  *)
(* have lower == upper == B, with more than one vanilla visit (1 + the     *)
(* children's n > 1), the node becomes terminal with result -B, for each B *)
(* of BlackWon, Draw and WhiteWon.                                         *)
C8_Promotion ==
  \A a \in Nodes, B \in GameResults :
    (AllChildrenProven(heap, a, B) /\ 1 + ChildrenN(heap, a) > 1) =>
      LET h2 == RecalculateScoreBetamcts(heap, a)
      IN  /\ IsTerminal(h2[a])
          /\ h2[a].lower_bound_ = NegResult(B)
          /\ h2[a].upper_bound_ = NegResult(B)
          /\ <<h2[a].wl_, h2[a].d_>> = ResultWD(NegResult(B))


---------------------------------------------------------------------------
(* Properties of the visit protocol under concurrent workers (SpecVisit,   *)
(* SpecVisitK).                                                            *)

\* The workers whose visit is started and not yet released.
OpenVisits == {w \in Workers : wpc[w] \in {"visiting", "release"}}

(* C2: first-visit exclusivity.  While the leaf has n == 0, at most one    *)
(* TryStartScoreUpdate has returned true and not yet been finalized or     *)
(* cancelled: no state has n == 0 and n_in_flight > 1.                     *)
C2_FirstVisitExclusive ==
  heap[Leaf].n_ = 0 =>
    /\ heap[Leaf].n_in_flight_ <= 1
    /\ Cardinality(OpenVisits) <= 1

(* C3: with every visit closed by CancelScoreUpdate(1) or a Finalize with  *)
(* multivisit 1, the leaf's n_in_flight is in every state the number of    *)
(* visits started and not yet closed, and so 0 once all are closed.        *)
C3_InFlightBalance ==
  /\ heap[Leaf].n_in_flight_ = Cardinality(OpenVisits)
  /\ heap[Leaf].n_in_flight_ = started - closes
  /\ started = closes => heap[Leaf].n_in_flight_ = 0

\* Three visits were started, one was finalized and one cancelled, and the
\* third is in flight.
C3_Witness ==
  /\ started = 3 /\ closes = 2
  /\ heap[Leaf].n_ = 1
  /\ heap[Leaf].n_in_flight_ = 1

(* C4 as the specification states it: with every started visit closed by   *)
(* one Cancel or Finalize of any multivisit k >= 1, n >= 0 and             *)
(* n_in_flight >= 0 in every state.                                        *)
C4_NeverNegative ==
  /\ heap[Leaf].n_ >= 0
  /\ heap[Leaf].n_in_flight_ >= 0

(* C4, amended: n >= 0 in every state, and n_in_flight is the number of    *)
(* visits started less the multivisit counts released; it is >= 0 exactly  *)
(* while the counts released do not exceed the visits started, which is so *)
(* whenever every visit is closed with multivisit 1, the one visit that    *)
(* TryStartScoreUpdate claimed.                                            *)
C4_NoWrapAmended ==
  /\ heap[Leaf].n_ >= 0
  /\ heap[Leaf].n_in_flight_ = started - closedK
  /\ heap[Leaf].n_in_flight_ >= 0 <=> closedK <= started
  /\ closedK = closes => heap[Leaf].n_in_flight_ >= 0

\* Visits were closed with a multivisit above 1 and with multivisit 1, and
\* the counter has not gone below zero.
C4_Witness ==
  /\ closes >= 2
  /\ closedK > closes
  /\ heap[Leaf].n_ >= 1
  /\ heap[Leaf].n_in_flight_ >= 0


---------------------------------------------------------------------------
(* Properties of solidification (SpecSolid). *)

\* The children of a node: the nodes whose parent it is.
ChildrenOf(a) == {c \in Nodes : heap[c].parent_ = a}

RECURSIVE InFlightOf(_)
InFlightOf(S) ==
  IF S = {} THEN 0
  ELSE LET c == CHOOSE x \in S : TRUE
       IN  heap[c].n_in_flight_ + InFlightOf(S \ {c})

\* What makes MakeSolid refuse, as the specification lists it.
MustRefuse(a) ==
  \/ heap[a].solid_children_
  \/ heap[a].num_edges_ = 0
  \/ heap[a].terminal_type_ # "NonTerminal"
  \/ \E c \in ChildrenOf(a) : heap[c].n_ <= 1 /\ heap[c].n_in_flight_ > 0
  \/ \E c \in ChildrenOf(a) :
       heap[c].terminal_type_ # "NonTerminal" /\ heap[c].n_in_flight_ > 0
  \/ InFlightOf(ChildrenOf(a)) # heap[a].n_in_flight_

(* C9: in every state, for every node of the tree, MakeSolid returns false *)
(* exactly when the node is solid already, has no edges, is terminal, has  *)
(* a child with n <= 1 in flight, has a terminal child in flight, or its   *)
(* children's n_in_flight do not add up to its own; and when it returns    *)
(* false the heap (the node, its children, its best-child cache) and the   *)
(* reclaimer's queue are as they were.                                     *)
C9_MakeSolidRefusal ==
  \A a \in LiveNodes :
    LET r == MakeSolid(heap, gcq, a)
    IN  /\ r.ret = FALSE <=> MustRefuse(a)
        /\ r.ret = FALSE => r.h = heap /\ r.q = gcq

(* The root has a terminal child with n > 1 and a visit in flight, no child *)
(* with n <= 1 in flight and no collision: MakeSolid is refused for the    *)
(* terminal child alone, and nothing changes.                              *)
C9_Witness ==
  /\ \E c \in ChildrenOf(Root) :
       /\ heap[c].terminal_type_ # "NonTerminal"
       /\ heap[c].n_ > 1 /\ heap[c].n_in_flight_ > 0
  /\ \A c \in ChildrenOf(Root) : ~(heap[c].n_ <= 1 /\ heap[c].n_in_flight_ > 0)
  /\ InFlightOf(ChildrenOf(Root)) = heap[Root].n_in_flight_
  /\ ~heap[Root].solid_children_
  /\ ~MakeSolid(heap, gcq, Root).ret
  /\ MakeSolid(heap, gcq, Root).h = heap

(* C10: in every state, for every node of the tree on which MakeSolid      *)
(* succeeds: the node keeps its fields but for child_, the solid flag      *)
(* (set) and the best-child cache (cleared); iterating its edges gives for *)
(* edge i the slot child_ + i, a new node with index i and the node as     *)
(* parent; a slot whose edge had a child is that child as it was, with its *)
(* subtree (its children's parent is the slot); every other slot is a      *)
(* fresh node; each old child goes to the reclaimer's queue, with size 0   *)
(* and without children or siblings; nothing else changes.                 *)
C10_SolidPreserves ==
  \A a \in LiveNodes :
    LET r == MakeSolid(heap, gcq, a)
        old == EdgeNodes(heap, a)
        new == EdgeNodes(r.h, a)
        moved == {i \in 1..Len(old) : old[i] # NULL}
    IN  r.ret =>
          /\ r.h[a] = [heap[a] EXCEPT !.child_ = r.h[a].child_,
                                      !.solid_children_ = TRUE,
                                      !.best_child_cached_ = NULL]
          /\ Len(new) = heap[a].num_edges_ /\ Len(old) = heap[a].num_edges_
          /\ \A i \in 1..Len(new) :
               /\ new[i] = r.h[a].child_ + (i - 1)
               /\ new[i] \notin Nodes
               /\ r.h[new[i]].index_ = i - 1
               /\ r.h[new[i]].parent_ = a
               /\ IF i \in moved
                    THEN /\ r.h[new[i]] = [heap[old[i]] EXCEPT !.sibling_ = NULL]
                         /\ \A g \in ChildrenOf(old[i]) :
                              r.h[g] = [heap[g] EXCEPT !.parent_ = new[i]]
                         /\ r.h[old[i]].child_ = NULL
                         /\ r.h[old[i]].sibling_ = NULL
                         /\ \E j \in (Len(gcq) + 1)..Len(r.q) :
                              r.q[j] = [node |-> old[i], solid_size |-> 0]
                    ELSE r.h[new[i]] = FreshNode(a, i - 1)
          /\ Len(r.q) = Len(gcq) + Cardinality(moved)
          /\ SubSeq(r.q, 1, Len(gcq)) = gcq
          /\ \A x \in Nodes :
               (x # a /\ heap[x].parent_ # a
                  /\ \A i \in moved : heap[x].parent_ # old[i])
                 => r.h[x] = heap[x]

(* The root was made solid with two of its three children visited, one of  *)
(* them expanded: the slots carry them and the grandchild points at its    *)
(* slot, the slot between is fresh, and the old children are queued.       *)
C10_Witness ==
  /\ heap[Root].solid_children_
  /\ Len(gcq) = 2
  /\ LET slots == EdgeNodes(heap, Root)
     IN  /\ heap[slots[1]].n_ >= 1
         /\ heap[slots[1]].child_ # NULL
         /\ heap[heap[slots[1]].child_].parent_ = slots[1]
         /\ heap[slots[2]] = FreshNode(Root, 1)
         /\ heap[slots[3]].n_ >= 1

---------------------------------------------------------------------------
(* Properties of the expansion of one node (SpecEdges). *)

\* a < b for two non-negative floats given as fixed-point numbers.
FixLess(a, b) == a[1] < b[1] \/ (a[1] = b[1] /\ a[2] < b[2])

\* The caller has set a prior, and its edge is there.
PriorWasSet == wreg.move # 0 /\ wreg.move <= Len(heap[Root].edges_)

(* C16: in every state, a node without edges has no children and a node    *)
(* with edges has num_edges >= 1, whatever move list the edges were        *)
(* created from.                                                           *)
C16_EdgesLeaf ==
  \A a \in Nodes :
    /\ ~heap[a].has_edges_ => heap[a].child_ = NULL
    /\ heap[a].has_edges_ => heap[a].num_edges_ >= 1

(* C17 as the specification states it: after SetP(0.0) or SetP(1e-10) the  *)
(* edge's GetP() is exactly 0.0.                                           *)
C17_ZeroExact ==
  (PriorWasSet /\ wreg.p \in {Float_0, Float_1e10})
    => GetP(EdgeOfMove(heap, Root, wreg.move).p_) = Float_0

(* C17, amended: after SetP(p) with p at most 2^-31 (0.0 and 1e-10 among   *)
(* them) the edge's GetP() is exactly 2^-31, the smallest value the codec  *)
(* can hold; no stored code decodes to 0.0 or to anything below 2^-31.     *)
C17_ZeroDecodesToMin ==
  /\ (PriorWasSet /\ wreg.p <= Float_MinP)
       => GetP(EdgeOfMove(heap, Root, wreg.move).p_) = Float_MinP
  /\ \A i \in 1..Len(heap[Root].edges_) :
       /\ GetP(heap[Root].edges_[i].p_) # Float_0
       /\ GetP(heap[Root].edges_[i].p_) >= Float_MinP

\* SetP(0.0) was the last call, on the second edge, the first holding 1.0.
C17_Witness ==
  /\ PriorWasSet /\ wreg.move = 2 /\ wreg.p = Float_0
  /\ EdgeOfMove(heap, Root, 2).p_ = 0
  /\ EdgeOfMove(heap, Root, 1).p_ = SetP(Float_1)

(* C18: for all floats p1 < p2 in [0,1] (non-negative floats are ordered   *)
(* as their bit patterns) the code of p1 is <= the code of p2; for the     *)
(* codes c1 < c2 stored in the edges, the decoded values are ordered the   *)
(* same way, strictly; and every order SortEdges can leave is also         *)
(* non-increasing in the decoded prior.                                    *)
C18_CodecOrdering ==
  /\ \A b1, b2 \in PriorFloats : b1 < b2 => SetP(b1) <= SetP(b2)
  /\ \A i, j \in 1..Len(heap[Root].edges_) :
       heap[Root].edges_[i].p_ < heap[Root].edges_[j].p_
         => FixLess(PVal(heap[Root].edges_[i]), PVal(heap[Root].edges_[j]))
  /\ \A h \in SortEdges(heap, Root) :
       heap[Root].child_ = NULL =>
         \A i \in 1..(Len(h[Root].edges_) - 1) :
           ~FixLess(PVal(h[Root].edges_[i]), PVal(h[Root].edges_[i + 1]))

\* The edges were sorted, which put the second move first; both priors are
\* above the smallest code.
C18_Witness ==
  /\ Len(heap[Root].edges_) = 2
  /\ heap[Root].edges_[1].move_ = 2
  /\ heap[Root].edges_[1].p_ > heap[Root].edges_[2].p_
  /\ heap[Root].edges_[2].p_ > 0

\* The pairs (node, other) in which other is not a child of node.
NonChildPairs == {pair \in Nodes \X Nodes : heap[pair[2]].parent_ # pair[1]}

(* C19 as the specification states it: in a build with assertions, each of *)
(* SortEdges with a child, CreateEdges on a node with edges, MakeSolid on  *)
(* a solid node and GetEdgeToNode with a non-child ends in an assertion    *)
(* failure, and changes nothing.                                           *)
C19_PreconditionsAsserted ==
  /\ heap[Root].child_ # NULL =>
       SortEdgesCall(heap, Root, TRUE) = [hs |-> {heap}, outcome |-> "assertion_failure"]
  /\ heap[Root].has_edges_ =>
       \A moves \in MoveLists :
         CreateEdgesCall(heap, Root, moves, TRUE) = [h |-> heap, outcome |-> "assertion_failure"]
  /\ heap[Root].solid_children_ =>
       LET c == MakeSolidCall(heap, gcq, Root, TRUE)
       IN  c.outcome = "assertion_failure" /\ c.r.h = heap /\ c.r.q = gcq
  /\ \A pair \in NonChildPairs :
       LET r == GetEdgeToNodeCall(heap, pair[1], pair[2], TRUE)
       IN  r.outcome = "assertion_failure" /\ r.h = heap

(* C19, amended: SortEdges with a child, CreateEdges on a node with edges  *)
(* and GetEdgeToNode with a non-child end in an assertion failure in a     *)
(* build with assertions and return in a build without; MakeSolid on a     *)
(* solid node asserts nothing and returns false in both builds; none of    *)
(* the four changes the edges, their order, the children, the layout flag  *)
(* or anything else.                                                       *)
C19_PreconditionsAmended ==
  \A asserts \in BOOLEAN :
    /\ heap[Root].child_ # NULL =>
         LET r == SortEdgesCall(heap, Root, asserts)
         IN  r.hs = {heap} /\ (r.outcome = "assertion_failure" <=> asserts)
    /\ heap[Root].has_edges_ =>
         \A moves \in MoveLists :
           LET r == CreateEdgesCall(heap, Root, moves, asserts)
           IN  r.h = heap /\ (r.outcome = "assertion_failure" <=> asserts)
    /\ heap[Root].solid_children_ =>
         MakeSolidCall(heap, gcq, Root, asserts) =
           [r |-> [h |-> heap, q |-> gcq, ret |-> FALSE], outcome |-> "returned"]
    /\ \A pair \in NonChildPairs :
         LET r == GetEdgeToNodeCall(heap, pair[1], pair[2], asserts)
         IN  r.h = heap /\ (r.outcome = "assertion_failure" <=> asserts)

\* A solid node whose edges are not in the order of their priors: each of
\* the four calls has its precondition broken here.
C19_Witness ==
  /\ heap[Root].solid_children_
  /\ Len(heap[Root].edges_) = 2
  /\ heap[Root].edges_[1].p_ < heap[Root].edges_[2].p_
  /\ NonChildPairs # {}


---------------------------------------------------------------------------
(* Properties of the tree of a game (SpecTree). *)

\* The statistics of a node: all but its place in the tree and its edges.
Statistics(node) ==
  [f \in (DOMAIN node) \ {"parent_", "index_", "child_", "sibling_",
                          "solid_children_", "has_edges_", "edges_",
                          "num_edges_", "best_child_cached_",
                          "best_child_cache_in_flight_limit_",
                          "terminal_type_"} |-> node[f]]

\* The nodes the subtrees in the reclaimer's queue own.
QueueOwned(h, q) ==
  UNION {IF q[k].solid_size # 0
           THEN UNION {OwnedBy(h, q[k].node + i) : i \in 0..(q[k].solid_size - 1)}
           ELSE OwnedBy(h, q[k].node) : k \in 1..Len(q)}

\* The nodes that are children of node a.
ChildNodes(h, a) ==
  {EdgeNodes(h, a)[i] : i \in 1..Len(EdgeNodes(h, a))} \ {NULL}

\* The edges of the head with their moves, as (index, move).
HeadEdges ==
  IF tree.current_head_ = NULL THEN {}
  ELSE {<<i, heap[tree.current_head_].edges_[i + 1].move_>> :
          i \in 0..(heap[tree.current_head_].num_edges_ - 1)}

(* After MakeMove without analyse mode for the move of edge e[1] of the    *)
(* head: the new head is the child for that edge under the old head, which *)
(* keeps its children in a list of that one child.                         *)
IsOnlyChild(r, head, e) ==
  LET new == r.t.current_head_
  IN  /\ new # NULL
      /\ r.h[new].parent_ = head
      /\ r.h[new].index_ = e[1]
      /\ r.h[new].sibling_ = NULL
      /\ r.h[head].child_ = new
      /\ ~r.h[head].solid_children_
      /\ r.h[head].edges_ = heap[head].edges_
      /\ r.h[head].num_edges_ = heap[head].num_edges_
      /\ r.t.gamebegin_node_ = tree.gamebegin_node_
      /\ r.t.history_.moves = Append(tree.history_.moves, e[2])

(* The subtree of the child c0 is that of the new head: the same children  *)
(* container and edges, the children pointing to the new head, and every   *)
(* node below as it was.                                                   *)
SubtreeKept(r, c0) ==
  LET new == r.t.current_head_
  IN  /\ r.h[new].child_ = heap[c0].child_
      /\ r.h[new].solid_children_ = heap[c0].solid_children_
      /\ r.h[new].has_edges_ = heap[c0].has_edges_
      /\ r.h[new].edges_ = heap[c0].edges_
      /\ r.h[new].num_edges_ = heap[c0].num_edges_
      /\ ChildNodes(r.h, new) = ChildNodes(heap, c0)
      /\ \A k \in ChildNodes(heap, c0) :
           r.h[k] = [heap[k] EXCEPT !.parent_ = new]
      /\ \A k \in OwnedChildren(heap, c0) \ ChildNodes(heap, c0) :
           r.h[k] = heap[k]

(* The other children of the old head are with the reclaimer and out of    *)
(* the tree.                                                               *)
OthersReleased(r, head, c0) ==
  \A x \in ChildNodes(heap, head) \ {r.t.current_head_} :
    /\ x \in QueueOwned(r.h, r.q)
    /\ x \notin OwnedBy(r.h, r.t.gamebegin_node_)
    /\ x # c0 => \A y \in OwnedBy(heap, x) \ OwnedBy(heap, heap[x].sibling_) :
                   /\ y \in QueueOwned(r.h, r.q)
                   /\ y \notin OwnedBy(r.h, r.t.gamebegin_node_)

\* C11 as written: after MakeMove(move, analyse_mode = false) for the move
\* of an edge of the head, the head is the child for that edge with its
\* index, statistics and subtree preserved and it is not terminal; the old
\* head has it as its only child, in a list; the other children are with
\* the reclaimer and out of the tree.
C11_ReRootPreserves ==
  \A e \in HeadEdges :
    LET head == tree.current_head_
        c0 == EdgeNodes(heap, head)[e[1] + 1]
        r == MakeMove(heap, gcq, tree, e[2], FALSE)
    IN  /\ IsOnlyChild(r, head, e)
        /\ ~IsTerminal(r.h[r.t.current_head_])
        /\ OthersReleased(r, head, c0)
        /\ c0 # NULL =>
             /\ Statistics(r.h[r.t.current_head_]) = Statistics(heap[c0])
             /\ SubtreeKept(r, c0)

\* C11, amended: as above, but the statistics of a child that was terminal
\* are those MakeNotTerminal leaves (n_ counted anew from its children, wl_
\* and d_ averaged with theirs), and a child that did not exist is a fresh
\* node.
C11_ReRootAmended ==
  \A e \in HeadEdges :
    LET head == tree.current_head_
        c0 == EdgeNodes(heap, head)[e[1] + 1]
        r == MakeMove(heap, gcq, tree, e[2], FALSE)
        new == r.t.current_head_
    IN  /\ IsOnlyChild(r, head, e)
        /\ ~IsTerminal(r.h[new])
        /\ OthersReleased(r, head, c0)
        /\ c0 = NULL => r.h[new] = FreshNode(head, e[1])
        /\ c0 # NULL =>
             /\ SubtreeKept(r, c0)
             /\ Statistics(r.h[new]) =
                  IF IsTerminal(heap[c0])
                    THEN Statistics(MakeNotTerminal(heap, c0)[c0])
                    ELSE Statistics(heap[c0])

\* A move was made without analyse mode: the head is the only child of its
\* parent, it has a child of its own, and a former sibling is with the
\* reclaimer.
C11_Witness ==
  /\ tree.current_head_ # NULL
  /\ heap[tree.current_head_].parent_ # NULL
  /\ heap[tree.current_head_].child_ # NULL
  /\ heap[tree.current_head_].sibling_ = NULL
  /\ heap[heap[tree.current_head_].parent_].child_ = tree.current_head_
  /\ heap[heap[tree.current_head_].parent_].num_edges_ >= 2
  /\ \E k \in 1..Len(gcq) :
       /\ gcq[k].node \in DOMAIN heap
       /\ heap[gcq[k].node].parent_ = heap[tree.current_head_].parent_


\* Sequence p is the start of sequence g.
IsPrefix(p, g) == Len(p) <= Len(g) /\ SubSeq(g, 1, Len(p)) = p

\* The node the moves of `path` lead to from the game-begin node, or NULL.
RECURSIVE NodeAt(_, _, _)
NodeAt(h, a, path) ==
  IF a = NULL \/ path = <<>> THEN a
  ELSE LET hit == {i \in 1..h[a].num_edges_ : h[a].edges_[i].move_ = path[1]}
       IN  IF hit = {} THEN NULL
           ELSE NodeAt(h, EdgeNodes(h, a)[CHOOSE i \in hit : TRUE], Tail(path))

\* The calls of ResetToPosition that keep the starting position and return.
SameStartCalls ==
  IF tree.gamebegin_node_ = NULL THEN {}
  ELSE {c \in Games \X BOOLEAN :
          ~ResetToPosition(heap, gcq, tree, tree.history_.starting,
                           c[1], c[2]).ended}

\* C12: ResetToPosition with the starting position unchanged returns true
\* exactly when the head before the call is on the walked path, its
\* statistics and subtree are then retained, and when it returns false
\* without analyse mode the new head is trimmed; in either mode and layout.
C12_ResetReturnsOnPath ==
  \A c \in SameStartCalls :
    LET r == ResetToPosition(heap, gcq, tree, tree.history_.starting, c[1], c[2])
        old_path == PathOf(heap, tree.current_head_)
        new_head == r.st.t.current_head_
        at == NodeAt(r.st.h, r.st.t.gamebegin_node_, old_path)
    IN  /\ r.ret = IsPrefix(old_path, c[1])
        /\ r.ret =>
             /\ at # NULL
             /\ Statistics(r.st.h[at]) = Statistics(heap[tree.current_head_])
             /\ old_path = c[1] =>
                  \A k \in OwnedChildren(heap, tree.current_head_) :
                    k \in OwnedChildren(r.st.h, at) /\ r.st.h[k] = heap[k]
        /\ (~r.ret /\ ~c[2]) =>
             /\ r.st.h[new_head].n_ = 0
             /\ ~r.st.h[new_head].has_edges_
             /\ r.st.h[new_head].child_ = NULL

\* C13: TrimTreeAtHead hands the children of the head to the reclaimer, a
\* solid array with its size, makes the head a fresh node that keeps its
\* parent, index and sibling, and leaves every other node as it was.
C13_TrimResetsHead ==
  tree.current_head_ # NULL =>
    LET head == tree.current_head_
        r == TrimTreeAtHead(heap, gcq, tree)
    IN  /\ r.q = IF heap[head].child_ = NULL THEN gcq
                 ELSE Append(gcq, [node |-> heap[head].child_,
                                   solid_size |-> IF heap[head].solid_children_
                                                    THEN heap[head].num_edges_
                                                    ELSE 0])
        /\ ChildNodes(heap, head) \subseteq QueueOwned(r.h, r.q)
        /\ OwnedChildren(heap, head) \subseteq QueueOwned(r.h, r.q)
        /\ r.h[head].n_ = 0
        /\ r.h[head].n_in_flight_ = 0
        /\ ~r.h[head].has_edges_
        /\ r.h[head].num_edges_ = 0
        /\ r.h[head].child_ = NULL
        /\ ~IsTerminal(r.h[head])
        /\ ~r.h[head].solid_children_
        /\ r.h[head] = [FreshNode(heap[head].parent_, heap[head].index_)
                          EXCEPT !.sibling_ = heap[head].sibling_]
        /\ DOMAIN r.h = DOMAIN heap
        /\ \A x \in (DOMAIN heap) \ {head} : r.h[x] = heap[x]
        /\ r.t = tree

\* The tree was trimmed at a head with solid children: the head is a fresh
\* node and the array of its former children is with the reclaimer.
C13_Witness ==
  /\ tree.current_head_ # NULL
  /\ ~heap[tree.current_head_].has_edges_
  /\ heap[tree.current_head_].n_ = 0
  /\ \E k \in 1..Len(gcq) :
       /\ gcq[k].solid_size = NumTreeMoves
       /\ gcq[k].node \in DOMAIN heap
       /\ heap[gcq[k].node].parent_ = tree.current_head_

(* The child container of node a: in a list every child has a as parent    *)
(* and an index of its own below num_edges_; with the solid flag set there *)
(* is an array of num_edges_ slots, slot i with index i and parent a.      *)
ContainerOK(h, a) ==
  IF h[a].solid_children_
    THEN /\ h[a].child_ # NULL
         /\ \A i \in 0..(h[a].num_edges_ - 1) :
              /\ (h[a].child_ + i) \in DOMAIN h
              /\ h[h[a].child_ + i].index_ = i
              /\ h[h[a].child_ + i].parent_ = a
    ELSE LET list == SiblingList(h, h[a].child_)
         IN  /\ \A k \in 1..Len(list) :
                  /\ h[list[k]].parent_ = a
                  /\ h[list[k]].index_ \in 0..(h[a].num_edges_ - 1)
             /\ \A k, l \in 1..Len(list) :
                  k # l => h[list[k]].index_ # h[list[l]].index_

\* The nodes of the tree.
TreeNodes == OwnedBy(heap, tree.gamebegin_node_)

\* C14: whatever was created, spawned, made solid, released and trimmed,
\* every node of the tree has a well-formed child container, and has one
\* after ReleaseChildren and after ReleaseChildrenExceptOne for any child.
C14_ChildContainer ==
  \A a \in TreeNodes :
    /\ ContainerOK(heap, a)
    /\ \A c \in ChildNodes(heap, a) :
         ContainerOK(ReleaseChildrenExceptOne(heap, gcq, a, c).h, a)
    /\ ContainerOK(ReleaseChildren(heap, gcq, a).h, a)

\* The nodes GetParent() leads through from node a, at most fuel of them.
RECURSIVE ParentWalk(_, _, _)
ParentWalk(h, a, fuel) ==
  IF a = NULL \/ fuel = 0 THEN <<>>
  ELSE <<a>> \o ParentWalk(h, h[a].parent_, fuel - 1)

\* The nodes of the tree that own node a: a itself and its ancestors.
Owners(h, t, a) ==
  {x \in OwnedBy(h, t.gamebegin_node_) : a \in {x} \cup OwnedChildren(h, x)}

\* C15: the head belongs to the tree of the game-begin node, and walking
\* GetParent() from it leads, child by child, through exactly the nodes
\* that own it and ends at the game-begin node, which has no parent.
C15_ParentWalk ==
  tree.gamebegin_node_ # NULL =>
    LET walk == ParentWalk(heap, tree.current_head_, Cardinality(DOMAIN heap))
    IN  /\ tree.current_head_ \in TreeNodes
        /\ {walk[k] : k \in 1..Len(walk)} = Owners(heap, tree, tree.current_head_)
        /\ walk[Len(walk)] = tree.gamebegin_node_
        /\ heap[tree.gamebegin_node_].parent_ = NULL
        /\ \A k \in 1..(Len(walk) - 1) : walk[k] \in ChildNodes(heap, walk[k + 1])

\* The head is two moves below a node with solid children, its parent in
\* one of the slots.
C15_Witness ==
  /\ tree.current_head_ # NULL
  /\ heap[tree.current_head_].parent_ # NULL
  /\ heap[heap[tree.current_head_].parent_].parent_ # NULL
  /\ heap[heap[heap[tree.current_head_].parent_].parent_].solid_children_


---------------------------------------------------------------------------
(* Properties of the reclaimer's threads (SpecGc). *)

\* How often node is in the queue of subtrees.
TimesQueued(node) ==
  Cardinality({k \in 1..Len(gc.subtrees_to_gc_) : gc.subtrees_to_gc_[k] = node})

\* Whether the worker has taken node and not yet destroyed it.
InWorkersHand(node) ==
  /\ wpc[GcThread] \in {"take_size", "unlock", "destroy"}
  /\ wreg[GcThread].node_to_gc = node

\* C20: every subtree handed over is in the queue once, or in the worker's
\* hand, or destroyed, and never two of these; it leaves the queue with the
\* solid size it came with; the two queues are equally long whenever the
\* mutex is free; a null root never gets past the test; and the worker has
\* the mutex only from its lock to the end of its popping, not while it
\* destroys.
C20_QueueIntegrity ==
  /\ \A k \in 1..Len(gcq) :
       LET places == TimesQueued(gcq[k].node)
                       + (IF InWorkersHand(gcq[k].node) THEN 1 ELSE 0)
       IN  IF gcq[k].node \in DOMAIN heap THEN places = 1 ELSE places = 0
  /\ \A k, l \in 1..Len(gcq) : k # l => gcq[k].node # gcq[l].node
  /\ \A k \in 1..Len(gc.subtrees_to_gc_) :
       \E l \in 1..Len(gcq) : gcq[l].node = gc.subtrees_to_gc_[k]
  /\ gc.gc_mutex_ = 0 =>
       /\ Len(gc.subtrees_to_gc_) = Len(gc.subtrees_to_gc_solid_size_)
       /\ \A k \in 1..Len(gc.subtrees_to_gc_) :
            \E l \in 1..Len(gcq) :
              gcq[l] = [node |-> gc.subtrees_to_gc_[k],
                        solid_size |-> gc.subtrees_to_gc_solid_size_[k]]
  /\ wpc[GcThread] \in {"unlock", "destroy"} =>
       \E l \in 1..Len(gcq) :
         gcq[l] = [node |-> wreg[GcThread].node_to_gc,
                   solid_size |-> wreg[GcThread].solid_size]
  /\ \A p \in GcCallers :
       wpc[p] \in {"lock", "emplace_back", "push_back", "unlock"} =>
         wreg[p].node # NULL
  /\ \A k \in 1..Len(gc.subtrees_to_gc_) : gc.subtrees_to_gc_[k] # NULL
  /\ (gc.gc_mutex_ = GcThread) =
       (wpc[GcThread] \in {"empty", "take_node", "take_size", "unlock"})
  /\ \A p \in GcCallers :
       (gc.gc_mutex_ = p) = (wpc[p] \in {"emplace_back", "push_back", "unlock"})

\* The worker destroys a solid array, without the mutex, while a caller
\* holds the mutex and has put its subtree into the first queue only, and
\* an earlier subtree is gone.
C20_Witness ==
  /\ wpc[GcThread] = "destroy"
  /\ wreg[GcThread].solid_size # 0
  /\ \E p \in GcCallers : wpc[p] = "push_back" /\ gc.gc_mutex_ = p
  /\ \E k \in 1..Len(gcq) : gcq[k].node \notin DOMAIN heap


---------------------------------------------------------------------------
(* Properties of the reclaimer's threads under fair scheduling             *)
(* (SpecGcFair).                                                           *)

\* The nodes of subtree r: its root, or the slots of its array.
NodesOfRoot(r) ==
  IF r.solid_size = 0 THEN {r.node} ELSE r.node..(r.node + r.solid_size - 1)

HandedOver(r) == \E k \in 1..Len(gcq) : gcq[k].node = r.node

Destroyed(r) == NodesOfRoot(r) \cap DOMAIN heap = {}

\* C21: unless the stop flag is set, every subtree handed to the reclaimer
\* is in the end destroyed: each of the solid_size slots of an array, the
\* one node of a root handed over with solid size 0.
C21_EventuallyReclaimed ==
  \A r \in GcRoots : HandedOver(r) ~> (gc.stop_ \/ Destroyed(r))

\* A solid array was handed over and all of it is destroyed, the stop flag
\* not set.
C21_Witness ==
  /\ ~gc.stop_
  /\ \E r \in GcRoots : r.solid_size > 0 /\ HandedOver(r) /\ Destroyed(r)

\* The worker is inside a pass of GarbageCollect.
InPass ==
  wpc[GcThread] \in {"loop", "lock", "empty", "take_node", "take_size",
                     "unlock", "destroy"}

---------------------------------------------------------------------------
(* Further properties of the operations called one at a time (Spec). *)

\* The effective multivisits FinalizeScoreUpdate is given.
EffectiveVisits == 0..MaxK

\* n_betamcts_ of node a after FinalizeScoreUpdate without the full update.
BetaVisitsAfter(a, k, keff, inflate) ==
  FinalizeScoreUpdate(heap, a, EvalOf(heap, a).v, EvalOf(heap, a).d,
                      EvalOf(heap, a).m, k, keff, inflate, FALSE)[a].n_betamcts_

\* C23 as written: on a node with n > 0, FinalizeScoreUpdate without the
\* full update adds 10 k + k_eff to n_betamcts when the node is terminal
\* and inflate_terminals is set, and k + k_eff in every other case.
C23_EffectiveVisits ==
  \A a \in Nodes, k \in Multivisits, keff \in EffectiveVisits, inflate \in BOOLEAN :
    heap[a].n_ > 0 =>
      BetaVisitsAfter(a, k, keff, inflate) =
        RAdd(heap[a].n_betamcts_,
             IF IsTerminal(heap[a]) /\ inflate THEN R(10 * k + keff)
             ELSE R(k + keff))

\* C23, amended: 10 k + k_eff on a terminal node with inflate_terminals,
\* k + k_eff on a terminal node without, and k_eff alone on a node that is
\* not terminal.
C23_EffectiveVisitsAmended ==
  \A a \in Nodes, k \in Multivisits, keff \in EffectiveVisits, inflate \in BOOLEAN :
    heap[a].n_ > 0 =>
      BetaVisitsAfter(a, k, keff, inflate) =
        RAdd(heap[a].n_betamcts_,
             IF ~IsTerminal(heap[a]) THEN R(keff)
             ELSE IF inflate THEN R(10 * k + keff)
             ELSE R(k + keff))

\* A node that is not terminal was visited a second time with one visit and
\* one effective visit, and its n_betamcts went from 1 to 2.
C23_Witness ==
  \E a \in Nodes :
    ~IsTerminal(heap[a]) /\ heap[a].n_ = 2 /\ heap[a].n_betamcts_ = R(2)

\* The heaps MakeNotTerminal is applied to at node a: the reached one, and
\* the ones where a has just been made terminal by MakeTerminal.
BeforeNotTerminal(a) ==
  {heap} \cup {MakeTerminal(heap, a, call[1], call[2], call[3], inflate) :
                 call \in TerminalCalls, inflate \in BOOLEAN}

\* What MakeNotTerminal has to leave alone in the node itself.
Structure(node) ==
  <<node.n_in_flight_, node.has_edges_, node.edges_, node.num_edges_,
    node.child_, node.sibling_, node.solid_children_, node.parent_,
    node.index_>>

\* C24: MakeNotTerminal leaves the node non-terminal with n == 0 when it
\* has no edges and n == 1 + (sum of n over its children) when it has
\* edges, and changes neither n_in_flight, the edges, the children nor any
\* other node.
C24_MakeNotTerminal ==
  \A a \in Nodes : \A h0 \in BeforeNotTerminal(a) :
    LET h2 == MakeNotTerminal(h0, a)
    IN  /\ ~IsTerminal(h2[a])
        /\ h2[a].n_ = IF h0[a].has_edges_ THEN 1 + ChildrenN(h0, a) ELSE 0
        /\ Structure(h2[a]) = Structure(h0[a])
        /\ DOMAIN h2 = DOMAIN h0
        /\ \A b \in DOMAIN h0 : b # a => h2[b] = h0[b]

\* A visited node without edges was made terminal and then non-terminal:
\* its bounds are still the proven ones, its n is back at 0, its n_betamcts
\* still counts the visit.
C24_Witness ==
  \E a \in Nodes :
    /\ ~IsTerminal(heap[a]) /\ ~heap[a].has_edges_
    /\ heap[a].lower_bound_ = heap[a].upper_bound_
    /\ heap[a].n_ = 0 /\ heap[a].n_betamcts_ = R(1)


---------------------------------------------------------------------------
(* Further properties of the game tree (SpecTree). *)

\* MakeMove finds no edge of the head for the move (lines 855-864), after
\* the edges analyse mode creates on a head that has none.
NoEdgeMatches(move, analyse_mode) ==
  /\ tree.current_head_ # NULL
  /\ ~(analyse_mode /\ ~heap[tree.current_head_].has_edges_
       /\ \E i \in 1..NumTreeMoves : LegalMoves(tree.history_.moves)[i] = move)
  /\ \A i \in 1..heap[tree.current_head_].num_edges_ :
       heap[tree.current_head_].edges_[i].move_ # move

\* After MakeMove the old head has one edge, for the move, and one child at
\* index 0 in a list, which is the new head.
SingleChild(r, head, move) ==
  LET new == r.t.current_head_
  IN  /\ new # NULL /\ new # head
      /\ r.h[head].has_edges_
      /\ r.h[head].num_edges_ = 1
      /\ r.h[head].edges_[1].move_ = move
      /\ r.h[head].child_ = new
      /\ ~r.h[head].solid_children_
      /\ r.h[new].parent_ = head
      /\ r.h[new].index_ = 0
      /\ r.h[new].sibling_ = NULL

\* C25: MakeMove with a move that matches no edge of the head completes in
\* both modes, whether the head has no edges, one edge made earlier for
\* another move, or a solid child array: the old head is left with exactly
\* one edge (the move) and exactly one child at index 0, the new head, and
\* every child subtree there was is with the reclaimer, not destroyed.
C25_SingleChildOnTheFly ==
  \A move \in 1..NumTreeMoves, analyse_mode \in BOOLEAN :
    NoEdgeMatches(move, analyse_mode) =>
      /\ ~MakeMoveEnds(heap, tree, move)
      /\ LET r == MakeMove(heap, gcq, tree, move, analyse_mode)
         IN  /\ SingleChild(r, tree.current_head_, move)
             /\ OwnedChildren(heap, tree.current_head_) \subseteq DOMAIN r.h
             /\ OwnedChildren(heap, tree.current_head_) \subseteq
                  QueueOwned(r.h, r.q)


\* C27: whatever MakeTerminal, MakeNotTerminal, MakeMove and
\* RecalculateScoreBetamcts did, a node of the tree that is not terminal
\* has no proven bound: lower < upper; so has the head MakeMove made
\* non-terminal.
C27_NonTerminalUnproven ==
  \A a \in TreeNodes :
    ~IsTerminal(heap[a]) => heap[a].lower_bound_ < heap[a].upper_bound_

---------------------------------------------------------------------------
(* Properties of the best-child cache (SpecCache). *)

\* No node of the tree has a cached best child outside its child container.
CacheOK(h, t) ==
  \A a \in OwnedBy(h, t.gamebegin_node_) :
    \/ h[a].best_child_cached_ = NULL
    \/ h[a].best_child_cached_ \in ChildNodes(h, a)

\* C26: in every reachable state best_child_cached of every node is null
\* or a node of that node's child container, and it is so after
\* ReleaseChildren, ReleaseChildrenExceptOne, MakeSolid and MakeMove; and
\* UpdateBestChild never leaves a child with n == 0 cached.
C26_CacheNeverDangles ==
  /\ CacheOK(heap, tree)
  /\ \A a \in TreeNodes :
       /\ CacheOK(ReleaseChildren(heap, gcq, a).h, tree)
       /\ \A c \in ChildNodes(heap, a) :
            CacheOK(ReleaseChildrenExceptOne(heap, gcq, a, c).h, tree)
       /\ CacheOK(MakeSolid(heap, gcq, a).h, tree)
       /\ \A idx \in 0..(heap[a].num_edges_ - 1), visits_allowed \in VisitsAllowed :
            LET h2 == UpdateBestChild(heap, a, EdgeNodes(heap, a)[idx + 1],
                                      visits_allowed)
            IN  \/ h2[a].best_child_cached_ = NULL
                \/ h2[h2[a].best_child_cached_].n_ > 0
  /\ tree.current_head_ # NULL =>
       \A move \in 1..NumTreeMoves, analyse_mode \in BOOLEAN :
         ~MakeMoveEnds(heap, tree, move) =>
           LET r == MakeMove(heap, gcq, tree, move, analyse_mode)
           IN  CacheOK(r.h, r.t)

====
